---- MODULE Spec2Model ----
(***************************************************************************)
(* StarJump tower defense: the wave scheduler (WaveSystem), the game       *)
(* orchestrator (Game), the map's occupancy and guard-aura ledger          *)
(* (GameMap) and the damage formula (CombatSystem).                        *)
(*                                                                         *)
(* Time is the wall clock the code reads with Date.now() and that          *)
(* setTimeout counts against, in milliseconds.  The clock is observed      *)
(* every MsPerStep milliseconds; a frame of the ticker (GameLoop) or a     *)
(* user event may or may not happen at each observed instant.              *)
(*                                                                         *)
(* Combat between towers and enemies is an environment choice inside the   *)
(* frame: in each frame any living enemy may be killed by tower fire or    *)
(* reach the blue gate, and any tower may be destroyed while an enemy that *)
(* attacks towers is alive.                                                *)
(***************************************************************************)
EXTENDS Integers, Sequences, FiniteSets, TLC

(***************************************************************************)
(* Bounds of the model                                                     *)
(***************************************************************************)
MsPerStep == 500        \* resolution of the observed clock, in ms
MaxSteps == 26          \* horizon of the clock in the wave specifications
TowerHorizon == 3000    \* the instant, in ms, at which the tower specification observes the clock again
NumWaves == 2           \* waves of the configured table that are loaded
TestN == 2              \* test1(80) of the second revision, scaled down
MaxCoreHealth == 2      \* core health at start (10 in the source), scaled with the waves
MaxOvershoot == 2       \* calls of startNextWave explored past the last wave
MapW == 3               \* width of the loaded map (a window of the default map)
MapH == 1               \* height of the loaded map
MaxEntityId == 2        \* drags are explored while entityIdCounter is below this
DmgDen == 2             \* baseDamage is explored in steps of 1/DmgDen
MaxBaseDamage == 12     \* largest baseDamage of the dense range
MaxDelta == 2           \* a frame lasts up to MaxDelta * 50 ms, clamped by the loop
MaxTargets == 2         \* enemies that may stand in a tower's range
MaxIdleMs == 150        \* time an idle tower without a target is followed
MaxSpawns == 2          \* enemies spawned in the specification of walking enemies
MaxFrameTowers == 1     \* towers a counter-attacking enemy walks past
MaxGridTowers == 1      \* towers placed on the map of a path search
MaxShots == 3           \* attack instances fired in the specification of attack instances
MaxPlaced == 3          \* towers placed in the specification of the aura bonus
MaxHits == 2            \* damage resolutions on towers followed in that specification
MaxClockSteps == 8      \* horizon of the clock in the specification of the frame clock, in half clamps
MaxPhaseSteps == 7      \* horizon of the clock in the specification of the frame's calls, in seconds
MaxPhaseIds == 3        \* entity ids taken in that specification
MaxGridW == 3           \* width of the maps in the specifications of the pathfinder
MaxGridH == 2           \* their height
MaxWalls == 2           \* platforms on them

(***************************************************************************)
(* Program constants                                                       *)
(***************************************************************************)
GraceDelay == 3000      \* setTimeout delay before the next wave
InitialGold == 10000
ResetGold == 100
KillReward == 10

Min(a, b) == IF a < b THEN a ELSE b
Max(a, b) == IF a > b THEN a ELSE b

EnemyTypes == {"zombie", "capoo_swordsman", "capoo_bubbletea", "capoo_ak47"}

\* the enemy types whose tryAttack fires at towers
CounterAttackers == {"capoo_bubbletea", "capoo_ak47"}

(***************************************************************************)
(* Wave configuration                                                      *)
(***************************************************************************)
EnemySpawnConfig(type, delay, gateIndex) ==
    [type |-> type, delay |-> delay, gateIndex |-> gateIndex]

\* Array(n).fill(0).map((_, i) => ({type, delay: startDelay + i*interval, gateIndex: 0}))
ArrayMap(type, n, interval, startDelay) ==
    [i \in 1..n |-> EnemySpawnConfig(type, startDelay + (i - 1) * interval, 0)]

\* WaveSystem.createDefaultWaves, third revision: three waves of zombies
createDefaultWaves ==
    << [waveNumber |-> 1, prepareTime |-> 3000,
        enemies |-> << EnemySpawnConfig("zombie", 0, 0),
                       EnemySpawnConfig("zombie", 2000, 0),
                       EnemySpawnConfig("zombie", 4000, 0) >>],
       [waveNumber |-> 2, prepareTime |-> 5000,
        enemies |-> << EnemySpawnConfig("zombie", 0, 0),
                       EnemySpawnConfig("zombie", 1500, 0),
                       EnemySpawnConfig("zombie", 3000, 0),
                       EnemySpawnConfig("zombie", 4500, 0),
                       EnemySpawnConfig("zombie", 6000, 0) >>],
       [waveNumber |-> 3, prepareTime |-> 5000,
        enemies |-> ArrayMap("zombie", 8, 1000, 0)] >>

\* WaveSystem.test1(n), second revision
test1(n) == ArrayMap("capoo_ak47", n, 500, 0)

\* WaveSystem.createDefaultWaves, second revision (waves 1 to 3); the event
\* list of wave 2 is written out of delay order in the source
createDefaultWavesRev2 ==
    << [waveNumber |-> 1, prepareTime |-> 3000, enemies |-> test1(TestN)],
       [waveNumber |-> 2, prepareTime |-> 5000,
        enemies |-> << EnemySpawnConfig("capoo_bubbletea", 0, 0),
                       EnemySpawnConfig("capoo_bubbletea", 1500, 0),
                       EnemySpawnConfig("capoo_bubbletea", 3000, 0),
                       EnemySpawnConfig("capoo_bubbletea", 1000, 0),
                       EnemySpawnConfig("zombie", 2000, 0),
                       EnemySpawnConfig("capoo_bubbletea", 4000, 0),
                       EnemySpawnConfig("capoo_bubbletea", 6000, 0),
                       EnemySpawnConfig("capoo_bubbletea", 8000, 0),
                       EnemySpawnConfig("capoo_swordsman", 4500, 0),
                       EnemySpawnConfig("zombie", 6000, 0),
                       EnemySpawnConfig("zombie", 7500, 0),
                       EnemySpawnConfig("capoo_swordsman", 9000, 0),
                       EnemySpawnConfig("zombie", 10500, 0),
                       EnemySpawnConfig("zombie", 12000, 0),
                       EnemySpawnConfig("zombie", 13500, 0),
                       EnemySpawnConfig("capoo_swordsman", 15000, 0) >>],
       [waveNumber |-> 3, prepareTime |-> 5000,
        enemies |-> ArrayMap("zombie", 5, 1000, 0)
                    \o ArrayMap("capoo_swordsman", 6, 800, 5000)
                    \o ArrayMap("zombie", 5, 1000, 10000)] >>

\* the tables the constructor may load: a configured table cut after its
\* first n waves, for n up to NumWaves
Loaded(table) == {SubSeq(table, 1, n) : n \in 1..Min(NumWaves, Len(table))}

VARIABLES
    now,                \* Date.now()
    waves,              \* WaveSystem.waves
    currentWaveIndex,   \* WaveSystem.currentWaveIndex (0-based, -1 before the first wave)
    spawnedCount,       \* WaveSystem.spawnedCount
    waveStartTime,      \* WaveSystem.waveStartTime
    waveInProgress,     \* WaveSystem.waveInProgress
    allEnemiesSpawned,  \* WaveSystem.allEnemiesSpawned
    gameState,          \* Game.gameState
    coreHealth,         \* Game.coreHealth
    gold,               \* Game.gold
    enemies,            \* Game.enemies: number of living enemies of each type
    timers,             \* pending setTimeout callbacks (due times), oldest first
    ticking,            \* gameLoop is registered on app.ticker
    entityIdCounter,    \* Game.entityIdCounter
    towers,             \* Game.towers
    hasTower,           \* GameMap.tiles[y][x].hasTower
    guardAuraMap,       \* GameMap.guardAuraMap, a missing key read as 0
    isDragging,         \* DeploymentBar.isDragging
    draggingTowerType,  \* Game.draggingTowerType
    draggingTowerCost,  \* Game.draggingTowerCost
    currentTower,       \* TowerInfoPanel.currentTower
    waveEndTime,        \* history: Date.now() at the last markWaveComplete
    removedTowers,      \* history: towers removed by removeTower or reaped by the frame
    auraReleases,       \* history: runs of onGuardTowerRemoved, per tower id
    out,                \* the last handler run, its result and the callbacks it fired
    dmgArgs,            \* the arguments of a calculateDamage call
    dmgResult,          \* its result, 0 before the call
    burstTower,         \* the fields of one anti-air, laser or rain-mortar tower
    tick,               \* the inputs and the result of its last update
    burstLog,           \* history: targets of the fire events since it last entered firing
    routeMap,           \* the layout GameMap loaded, in the specifications of enemies as objects
    enemyObjs,          \* Game.enemies as objects, in those specifications
    frame,              \* history: the last frame's spawn events, the enemies with a living tower in range, those that reached the end
    shotEnemies,        \* Game.enemies as the targets of attack instances, in the specification of attack instances
    projectiles,        \* Game.projectiles
    gatlingBullets,     \* Game.gatlingBullets
    shotLog,            \* history: what the processing of each attack instance did in the last frame
    towerObjs,          \* Game.towers as objects with their stats, in the specification of the aura bonus
    towerHit,           \* history: the last damage resolution on a tower
    lastTime,           \* Game.lastTime, in the specification of the frame clock
    clock,              \* history: the time the last frame applied to each of its phases
    phases,             \* history: the calls of the last frame, what it spawned, fired and reaped
    pathArgs,           \* the arguments of a findPath call
    pathResult          \* its result, empty before the call

waveVars == <<currentWaveIndex, spawnedCount, waveStartTime, waveInProgress,
              allEnemiesSpawned>>

vars == <<now, waves, currentWaveIndex, spawnedCount, waveStartTime,
          waveInProgress, allEnemiesSpawned, gameState, coreHealth, gold,
          enemies, timers, ticking, entityIdCounter, towers, hasTower,
          guardAuraMap, isDragging, draggingTowerType, draggingTowerCost,
          currentTower, waveEndTime, removedTowers, auraReleases, out,
          dmgArgs, dmgResult, burstTower, tick, burstLog, routeMap, enemyObjs,
          frame, shotEnemies, projectiles, gatlingBullets, shotLog, towerObjs,
          towerHit, lastTime, clock, phases, pathArgs, pathResult>>

dmgVars == <<dmgArgs, dmgResult>>

burstVars == <<burstTower, tick, burstLog>>

frameVars == <<routeMap, enemyObjs, frame>>

\* the variables of the specifications of single functions and entities
pureVars == <<dmgVars, burstVars, frameVars, shotEnemies, projectiles,
              gatlingBullets, shotLog, towerObjs, towerHit, lastTime, clock,
              phases, pathArgs, pathResult>>

shotVars == <<shotEnemies, projectiles, gatlingBullets, shotLog>>

auraVars == <<towerObjs, towerHit>>

clockVars == <<lastTime, clock, phases>>

pathVars == <<pathArgs, pathResult>>

towerVars == <<towers, hasTower, guardAuraMap, isDragging, draggingTowerType,
               draggingTowerCost, currentTower, removedTowers, auraReleases>>

\* the variables of the game other than the last handler run
gameVars == <<now, waves, waveVars, gameState, coreHealth, gold, enemies,
              timers, ticking, entityIdCounter, waveEndTime, towerVars>>

NoEnemies == [t \in EnemyTypes |-> 0]

RECURSIVE SumOver(_, _)
SumOver(f, S) ==
    IF S = {} THEN 0
    ELSE LET x == CHOOSE y \in S : TRUE IN f[x] + SumOver(f, S \ {x})

\* this.enemies.filter((e) => e.isAlive()).length
AliveEnemies(es) == SumOver(es, EnemyTypes)

\* what the last handler did: its name, its result (for startGame and the
\* timeout, the result of their startNextWave call), the callbacks it fired,
\* the id of the tower it was given and the branch it took
OutputOf(op, ret, cb, id, why) ==
    [op |-> op, ret |-> ret, cb |-> cb, id |-> id, why |-> why]

Output(op, ret, cb) == OutputOf(op, ret, cb, -1, "")

\* the record left by a handler that returns nothing and fires no callback
NoOutput == Output("", FALSE, {})

(***************************************************************************)
(* WaveSystem                                                              *)
(***************************************************************************)
\* the wave at currentWaveIndex = idx
WaveAt(idx) == waves[idx + 1]

\* WaveSystem.isAllWavesComplete
isAllWavesComplete(idx, inProgress) ==
    idx >= Len(waves) - 1 /\ ~inProgress

\* a faulty release condition: the wave's prepareTime is left out
SpawnDueNoPrepare(wave, i, elapsed) ==
    elapsed >= wave.enemies[i].delay

\* the release condition of WaveSystem.update for the event at 1-based position i
SpawnDue(wave, i, elapsed) ==
    elapsed >= wave.prepareTime + wave.enemies[i].delay

\* the release loop of WaveSystem.update: the value of spawnedCount after it,
\* starting from count; the loop stops at the first event that is not due
RECURSIVE SpawnLoop(_, _, _)
SpawnLoop(wave, count, elapsed) ==
    IF count < Len(wave.enemies) /\ SpawnDue(wave, count + 1, elapsed)
    THEN SpawnLoop(wave, count + 1, elapsed)
    ELSE count

\* a faulty guard: startNextWave without its waveInProgress check
StartRefusedNever(inProgress) == FALSE

\* the guard of WaveSystem.startNextWave: a wave in progress refuses the call
StartRefused(inProgress) == inProgress

\* WaveSystem.startNextWave, as the scheduler state it leaves and what it
\* reports: ret is its return value, cb the callbacks it fired
startNextWave ==
    IF StartRefused(waveInProgress)
    THEN [idx |-> currentWaveIndex, count |-> spawnedCount,
          start |-> waveStartTime, inProgress |-> waveInProgress,
          allSpawned |-> allEnemiesSpawned, ret |-> FALSE, cb |-> {}]
    ELSE IF currentWaveIndex + 1 >= Len(waves)
    THEN [idx |-> currentWaveIndex + 1, count |-> spawnedCount,
          start |-> waveStartTime, inProgress |-> waveInProgress,
          allSpawned |-> allEnemiesSpawned, ret |-> FALSE,
          cb |-> {"onAllWavesComplete"}]
    ELSE [idx |-> currentWaveIndex + 1, count |-> 0, start |-> now,
          inProgress |-> TRUE, allSpawned |-> FALSE, ret |-> TRUE,
          cb |-> {"onWaveStart"}]

SetWave(r) ==
    /\ currentWaveIndex' = r.idx
    /\ spawnedCount' = r.count
    /\ waveStartTime' = r.start
    /\ waveInProgress' = r.inProgress
    /\ allEnemiesSpawned' = r.allSpawned

\* startNextWave is explored at most MaxOvershoot calls past the last wave
WithinOvershoot == currentWaveIndex < Len(waves) - 1 + MaxOvershoot

(***************************************************************************)
(* GameMap                                                                 *)
(***************************************************************************)
\* DEFAULT_MAP_DATA.layout, rows 3 to 5 and columns 11 to 15 of the 28x14
\* grid; the loaded map is the window of MapW x MapH tiles at its top left
Layout ==
    << <<"G", "O", "P", "O", "G">>,
       <<"O", "O", "P", "O", "O">>,
       <<"G", "G", "G", "G", "G">> >>

\* MAP_CHAR_TO_TYPE
MAP_CHAR_TO_TYPE(c) ==
    CASE c = "G" -> "ground"
      [] c = "P" -> "platform"
      [] c = "R" -> "red_gate"
      [] c = "B" -> "blue_gate"
      [] OTHER   -> "obstacle"

Tiles == (0..(MapW - 1)) \X (0..(MapH - 1))

\* GameMap.getTile: "none" outside the map, otherwise the tile's type
getTile(x, y) ==
    IF x < 0 \/ x >= MapW \/ y < 0 \/ y >= MapH THEN "none"
    ELSE MAP_CHAR_TO_TYPE(Layout[y + 1][x + 1])

\* GameMap.canPlaceTower
canPlaceTower(x, y) ==
    /\ getTile(x, y) = "platform"
    /\ ~hasTower[<<x, y>>]

\* GameMap.canPlaceGuardTower
canPlaceGuardTower(x, y) ==
    /\ getTile(x, y) \in {"platform", "ground"}
    /\ ~hasTower[<<x, y>>]

\* GameMap.setTowerOnTile on the occupancy map h
setTowerOnTile(h, x, y, flag) ==
    IF getTile(x, y) \in {"platform", "ground"}
    THEN [h EXCEPT ![<<x, y>>] = flag]
    ELSE h

\* the keys of guardAuraMap that can be written: the map and its border
AuraKeys == ((-1)..MapW) \X ((-1)..MapH)

\* GameMap.addGuardAuraToTile on the ledger m
addGuardAuraToTile(m, k) == [m EXCEPT ![k] = @ + 1]

\* GameMap.removeGuardAuraFromTile on the ledger m
removeGuardAuraFromTile(m, k) == [m EXCEPT ![k] = IF @ > 0 THEN @ - 1 ELSE @]

\* GameMap.tileHasGuardAura
tileHasGuardAura(x, y) == guardAuraMap[<<x, y>>] > 0

(***************************************************************************)
(* Towers                                                                  *)
(***************************************************************************)
\* DeploymentBar.createDeployableUnits
DeployableUnits ==
    { [type |-> "prototype", cost |-> 50],
      [type |-> "flamethrower", cost |-> 80],
      [type |-> "laser", cost |-> 120],
      [type |-> "antiaircraft", cost |-> 150],
      [type |-> "gatling", cost |-> 180],
      [type |-> "guard", cost |-> 200] }

\* the units whose drags are explored: one that needs a platform and the one
\* that grants the aura; the other four differ from the first in cost only
ExploredUnits == {u \in DeployableUnits : u.type \in {"prototype", "guard"}}

NoTower == [id |-> -1, type |-> "none", x |-> -1, y |-> -1]

\* GuardTower.getAuraAffectedTiles: up, down, left, right
getAuraAffectedTiles(t) ==
    << <<t.x, t.y - 1>>, <<t.x, t.y + 1>>, <<t.x - 1, t.y>>, <<t.x + 1, t.y>> >>

\* the guard towers of a tower list whose affected tiles contain the key k
GuardsCovering(ts, k) ==
    {i \in 1..Len(ts) :
        /\ ts[i].type = "guard"
        /\ \E j \in 1..4 : getAuraAffectedTiles(ts[i])[j] = k}

\* Game.onGuardTowerPlaced on the ledger m
onGuardTowerPlaced(m, t) ==
    LET a == getAuraAffectedTiles(t) IN
    addGuardAuraToTile(addGuardAuraToTile(addGuardAuraToTile(
        addGuardAuraToTile(m, a[1]), a[2]), a[3]), a[4])

\* Game.onGuardTowerRemoved on the ledger m
onGuardTowerRemoved(m, t) ==
    LET a == getAuraAffectedTiles(t) IN
    removeGuardAuraFromTile(removeGuardAuraFromTile(removeGuardAuraFromTile(
        removeGuardAuraFromTile(m, a[1]), a[2]), a[3]), a[4])

\* this.towers.indexOf(tower): 1-based position, 0 for the code's -1
indexOf(ts, t) ==
    IF \E i \in 1..Len(ts) : ts[i].id = t.id
    THEN CHOOSE i \in 1..Len(ts) : ts[i].id = t.id
    ELSE 0

\* this.towers.splice(index, 1) for a 1-based index inside the list
splice(ts, i) == SubSeq(ts, 1, i - 1) \o SubSeq(ts, i + 1, Len(ts))

\* one run of onGuardTowerRemoved recorded for tower id
Released(rel, id) ==
    IF id \in DOMAIN rel THEN [rel EXCEPT ![id] = @ + 1] ELSE rel @@ (id :> 1)

\* the release of one tower, shared by removeTower and cleanupDeadEntities:
\* tile freed, aura contribution of a guard tower returned
ReleaseTile(h, t) == setTowerOnTile(h, t.x, t.y, FALSE)
ReleaseAura(m, t) == IF t.type = "guard" THEN onGuardTowerRemoved(m, t) ELSE m
ReleaseCount(rel, t) == IF t.type = "guard" THEN Released(rel, t.id) ELSE rel

\* the towers of ts at the positions of dead, reaped one after the other from
\* the end of the list as cleanupDeadEntities does
RECURSIVE ReapTowers(_, _, _)
ReapTowers(st, dead, i) ==
    IF i = 0 THEN st
    ELSE IF i \in dead
    THEN LET t == st.towers[i] IN
         ReapTowers([towers |-> splice(st.towers, i),
                     hasTower |-> ReleaseTile(st.hasTower, t),
                     guardAuraMap |-> ReleaseAura(st.guardAuraMap, t),
                     auraReleases |-> ReleaseCount(st.auraReleases, t),
                     removedTowers |-> st.removedTowers \cup
                        {[id |-> t.id, type |-> t.type, how |-> "reaped"]}],
                    dead, i - 1)
    ELSE ReapTowers(st, dead, i - 1)

(***************************************************************************)
(* Game: placement and removal                                             *)
(***************************************************************************)
\* Game.placeTower: the tower list, occupancy, ledger and id counter it leaves
placeTower(x, y, towerType) ==
    LET t == [id |-> entityIdCounter, type |-> towerType, x |-> x, y |-> y] IN
    [towers |-> Append(towers, t),
     hasTower |-> setTowerOnTile(hasTower, x, y, TRUE),
     guardAuraMap |-> IF towerType = "guard"
                      THEN onGuardTowerPlaced(guardAuraMap, t)
                      ELSE guardAuraMap,
     entityIdCounter |-> entityIdCounter + 1]

\* the state handleDragDeploy leaves when it refuses; clear tells whether the
\* drag fields are reset on that path
DeployRefused(clear, why) ==
    [ret |-> FALSE, why |-> why, gold |-> gold, towers |-> towers, hasTower |-> hasTower,
     guardAuraMap |-> guardAuraMap, entityIdCounter |-> entityIdCounter,
     draggingTowerType |-> IF clear THEN "none" ELSE draggingTowerType,
     draggingTowerCost |-> IF clear THEN 0 ELSE draggingTowerCost]

\* a faulty handleDragDeploy: the cost is deducted before the tile is checked
handleDragDeployChargeFirst(x, y) ==
    IF gameState \notin {"playing", "idle"} THEN DeployRefused(FALSE, "state")
    ELSE IF draggingTowerType = "none" THEN DeployRefused(FALSE, "nodrag")
    ELSE IF gold < draggingTowerCost THEN DeployRefused(TRUE, "gold")
    ELSE IF ~(IF draggingTowerType = "guard"
              THEN canPlaceGuardTower(x, y) ELSE canPlaceTower(x, y))
    THEN [DeployRefused(TRUE, "tile") EXCEPT !.gold = gold - draggingTowerCost]
    ELSE LET p == placeTower(x, y, draggingTowerType) IN
         [ret |-> TRUE, why |-> "ok", gold |-> gold - draggingTowerCost,
          towers |-> p.towers, hasTower |-> p.hasTower,
          guardAuraMap |-> p.guardAuraMap,
          entityIdCounter |-> p.entityIdCounter,
          draggingTowerType |-> "none", draggingTowerCost |-> 0]

\* Game.handleDragDeploy with the drop already converted to tile coordinates
handleDragDeploy(x, y) ==
    IF gameState \notin {"playing", "idle"} THEN DeployRefused(FALSE, "state")
    ELSE IF draggingTowerType = "none" THEN DeployRefused(FALSE, "nodrag")
    ELSE IF ~(IF draggingTowerType = "guard"
              THEN canPlaceGuardTower(x, y) ELSE canPlaceTower(x, y))
    THEN DeployRefused(TRUE, "tile")
    ELSE IF gold < draggingTowerCost THEN DeployRefused(TRUE, "gold")
    ELSE LET p == placeTower(x, y, draggingTowerType) IN
         [ret |-> TRUE, why |-> "ok", gold |-> gold - draggingTowerCost, towers |-> p.towers,
          hasTower |-> p.hasTower, guardAuraMap |-> p.guardAuraMap,
          entityIdCounter |-> p.entityIdCounter,
          draggingTowerType |-> "none", draggingTowerCost |-> 0]

\* a faulty removeTower: the index === -1 return is missing, so the tile and
\* the aura are released again and splice(-1, 1) drops the last tower
removeTowerNoIndexCheck(t) ==
    LET found == indexOf(towers, t)
        index == IF found = 0 THEN Len(towers) ELSE found
    IN [towers |-> IF index = 0 THEN towers ELSE splice(towers, index),
        hasTower |-> ReleaseTile(hasTower, t),
        guardAuraMap |-> ReleaseAura(guardAuraMap, t),
        auraReleases |-> ReleaseCount(auraReleases, t),
        removedTowers |-> removedTowers \cup
            {[id |-> t.id, type |-> t.type, how |-> "explicit"]}]

\* Game.removeTower: the state it leaves for the tower object t
removeTower(t) ==
    LET index == indexOf(towers, t) IN
    IF index = 0
    THEN [towers |-> towers, hasTower |-> hasTower,
          guardAuraMap |-> guardAuraMap, auraReleases |-> auraReleases,
          removedTowers |-> removedTowers]
    ELSE [towers |-> splice(towers, index),
          hasTower |-> ReleaseTile(hasTower, t),
          guardAuraMap |-> ReleaseAura(guardAuraMap, t),
          auraReleases |-> ReleaseCount(auraReleases, t),
          removedTowers |-> removedTowers \cup
              {[id |-> t.id, type |-> t.type, how |-> "explicit"]}]

(***************************************************************************)
(* CombatSystem                                                            *)
(***************************************************************************)
\* baseDamage is a multiple of 1/DmgDen (callers pass baseDamage * percent),
\* carried as its numerator; defense and magicResist are integers; the
\* arithmetic is exact
DamageTypes == {"physical", "magical", "true"}

\* a faulty calculateDamage: magicResist is not clamped to 0..100
calculateDamageNoClamp(baseDamage, damageType, defense, magicResist) ==
    LET minimumDamage == Max(1, (baseDamage * 5) \div (100 * DmgDen))
    IN CASE damageType = "physical" ->
              Max(1, Max(minimumDamage * DmgDen,
                         baseDamage - defense * DmgDen) \div DmgDen)
         [] damageType = "magical" ->
              Max(1, Max(minimumDamage * 100 * DmgDen,
                         baseDamage * (100 - magicResist))
                     \div (100 * DmgDen))
         [] OTHER -> Max(1, baseDamage \div DmgDen)

\* a faulty calculateDamage: the minimum is 1 whatever the baseDamage
calculateDamageFlatMinimum(baseDamage, damageType, defense, magicResist) ==
    LET minimumDamage == 1
        resist == Min(100, Max(0, magicResist))
    IN CASE damageType = "physical" ->
              Max(1, Max(minimumDamage * DmgDen,
                         baseDamage - defense * DmgDen) \div DmgDen)
         [] damageType = "magical" ->
              Max(1, Max(minimumDamage * 100 * DmgDen,
                         baseDamage * (100 - resist))
                     \div (100 * DmgDen))
         [] OTHER -> Max(1, baseDamage \div DmgDen)

\* CombatSystem.calculateDamage
calculateDamage(baseDamage, damageType, defense, magicResist) ==
    LET minimumDamage == Max(1, (baseDamage * 5) \div (100 * DmgDen))
        resist == Min(100, Max(0, magicResist))
    IN CASE damageType = "physical" ->
              Max(1, Max(minimumDamage * DmgDen,
                         baseDamage - defense * DmgDen) \div DmgDen)
         [] damageType = "magical" ->
              Max(1, Max(minimumDamage * 100 * DmgDen,
                         baseDamage * (100 - resist))
                     \div (100 * DmgDen))
         [] OTHER -> Max(1, baseDamage \div DmgDen)

\* RAIN_MORTAR_STATS.physicalPen, which handleMortarExplosion passes as a
\* fifth argument; no attacker has a magicPen other than 0
MortarPhysicalPen == 15

\* the arguments explored: baseDamage from 0 to MaxBaseDamage in steps of
\* 1/DmgDen and two large values, defense and magicResist on both sides of
\* their ranges, the penetrations the call sites pass
DamageArgs ==
    [baseDamage : (0..(MaxBaseDamage * DmgDen)) \cup {50 * DmgDen, 100 * DmgDen},
     damageType : DamageTypes,
     defense : {-5, 0, 3, 10, 20, 40},
     magicResist : {-50, 0, 10, 50, 100, 150},
     physicalPen : {0, MortarPhysicalPen},
     magicPen : {0}]

(***************************************************************************)
(* Charge-then-burst towers: AntiaircraftTower, LaserTower, RainMortarTower *)
(* Times are in ms.                                                        *)
(***************************************************************************)
TowerKinds == {"antiaircraft", "laser", "rain_mortar"}

\* the enemies that may stand in a tower's range, by id; 0 is no enemy
TargetIds == 1..MaxTargets

\* Game.gameLoop clamps the frame's deltaTime
ClampMs == 100

DeltaTimes == {Min(k * 50, ClampMs) : k \in 1..MaxDelta}

\* 1 / stats.attackSpeed
attackInterval(kind) ==
    CASE kind = "antiaircraft" -> 3000
      [] kind = "laser" -> 2000
      [] OTHER -> 4000

\* AntiaircraftTower.firingDuration
firingDuration == 300

\* LaserTower.firingFrameDuration
firingFrameDuration == 500

\* RainMortarTower.cooldownDuration, burstCount, burstInterval
cooldownDuration == 500

burstCount == 4

burstInterval == 100

\* frameTimer >= preheatFrameDuration, the constructors' quotient kept exact
PreheatFrameOver(kind, frameTimer) ==
    CASE kind = "antiaircraft" ->
           frameTimer * 6 >= attackInterval(kind) - firingDuration
      [] kind = "laser" ->
           frameTimer * 5 >= attackInterval(kind) - 2 * firingFrameDuration
      [] OTHER ->
           frameTimer * 13 >= attackInterval(kind) - burstCount * burstInterval
                              - cooldownDuration

NewBurstTower(kind) ==
    [kind |-> kind, state |-> "idle", currentFrame |-> 0, frameTimer |-> 0,
     firedCount |-> 0, burstTimer |-> 0, currentTarget |-> 0,
     enemiesInRange |-> {}]

NoBurstTower == NewBurstTower("none")

NoTick == [deltaTime |-> 0, hasEnemy |-> FALSE, shouldFire |-> FALSE,
           targetId |-> 0]

\* what an update returns: the tower's fields after it and its result
Updated(t, shouldFire, targetId) ==
    [tower |-> t, shouldFire |-> shouldFire, targetId |-> targetId]

\* AntiaircraftTower.updateAnimationState, the onFire callback being set
AntiaircraftTower_updateAnimationState(t0, deltaTime, hasEnemy, targetId) ==
    LET t == [t0 EXCEPT !.frameTimer = @ + deltaTime]
    IN CASE t.state = "idle" ->
              IF hasEnemy
              THEN Updated([t EXCEPT !.state = "preheating", !.currentFrame = 1,
                                     !.frameTimer = 0], FALSE, 0)
              ELSE Updated(t, FALSE, 0)
         [] t.state = "preheating" ->
              IF ~hasEnemy
              THEN Updated([t EXCEPT !.state = "idle", !.currentFrame = 0,
                                     !.frameTimer = 0], FALSE, 0)
              ELSE IF PreheatFrameOver(t.kind, t.frameTimer)
              THEN IF t.currentFrame < 6
                   THEN Updated([t EXCEPT !.frameTimer = 0,
                                          !.currentFrame = @ + 1], FALSE, 0)
                   ELSE LET f == [t EXCEPT !.frameTimer = 0, !.state = "firing",
                                           !.currentFrame = 7]
                        IN IF t.currentTarget # 0
                           THEN Updated(f, TRUE, targetId)
                           ELSE Updated(f, FALSE, 0)
              ELSE Updated(t, FALSE, 0)
         [] OTHER ->
              IF t.frameTimer >= firingDuration
              THEN IF hasEnemy
                   THEN Updated([t EXCEPT !.frameTimer = 0, !.state = "preheating",
                                          !.currentFrame = 1], FALSE, 0)
                   ELSE Updated([t EXCEPT !.frameTimer = 0, !.state = "idle",
                                          !.currentFrame = 0], FALSE, 0)
              ELSE Updated(t, FALSE, 0)

\* AntiaircraftTower.update on the target findTarget returned (0 for null)
AntiaircraftTower_update(t, deltaTime, target) ==
    AntiaircraftTower_updateAnimationState(
        IF target # 0 THEN [t EXCEPT !.currentTarget = target] ELSE t,
        deltaTime, target # 0, target)

\* a faulty preheating that goes on without a target
TargetLostIgnored(hasEnemy) == FALSE

\* LaserTower.updateAnimationState: the preheating's test of hasEnemy
TargetLost(hasEnemy) == ~hasEnemy

\* LaserTower.updateAnimationState, the onFireLaser callback being set
LaserTower_updateAnimationState(t0, deltaTime, hasEnemy, targetId) ==
    LET t == [t0 EXCEPT !.frameTimer = @ + deltaTime]
    IN CASE t.state = "idle" ->
              IF hasEnemy
              THEN Updated([t EXCEPT !.state = "preheating", !.currentFrame = 1,
                                     !.frameTimer = 0,
                                     !.currentTarget = targetId], FALSE, 0)
              ELSE Updated(t, FALSE, 0)
         [] t.state = "preheating" ->
              IF TargetLost(hasEnemy)
              THEN Updated([t EXCEPT !.state = "idle", !.currentFrame = 0,
                                     !.frameTimer = 0], FALSE, 0)
              ELSE IF PreheatFrameOver(t.kind, t.frameTimer)
              THEN IF t.currentFrame < 5
                   THEN Updated([t EXCEPT !.frameTimer = 0,
                                          !.currentFrame = @ + 1], FALSE, 0)
                   ELSE Updated([t EXCEPT !.frameTimer = 0, !.state = "firing",
                                          !.currentFrame = 6,
                                          !.currentTarget = targetId], FALSE, 0)
              ELSE Updated(t, FALSE, 0)
         [] OTHER ->
              IF t.frameTimer >= firingFrameDuration
              THEN IF t.currentFrame = 6
                   THEN LET f == [t EXCEPT !.frameTimer = 0, !.currentFrame = 7]
                        IN IF t.currentTarget # 0
                           THEN Updated(f, TRUE, t.currentTarget)
                           ELSE Updated(f, FALSE, 0)
                   ELSE IF hasEnemy
                   THEN Updated([t EXCEPT !.frameTimer = 0, !.state = "preheating",
                                          !.currentFrame = 1,
                                          !.currentTarget = targetId], FALSE, 0)
                   ELSE Updated([t EXCEPT !.frameTimer = 0, !.state = "idle",
                                          !.currentFrame = 0], FALSE, 0)
              ELSE Updated(t, FALSE, 0)

\* LaserTower.update on the target findTarget returned (0 for null)
LaserTower_update(t, deltaTime, target) ==
    LaserTower_updateAnimationState(t, deltaTime, target # 0, target)

\* RainMortarTower.fireOneMortar on the enemy Math.random picked, the onFire
\* callback being set
fireOneMortar(u, pick) ==
    IF u.tower.enemiesInRange = {} THEN u
    ELSE Updated([u.tower EXCEPT !.firedCount = @ + 1], TRUE, pick)

\* a faulty end of the burst, one shot short
BurstCompleteEarly(firedCount) == firedCount >= burstCount - 1

\* RainMortarTower.updateAnimationState: the test that ends the burst
BurstComplete(firedCount) == firedCount >= burstCount

\* a faulty cooldown that ends in the frame after it began
CooldownOverAtOnce(frameTimer) == TRUE

\* RainMortarTower.updateAnimationState: the test that ends the cooldown
CooldownOver(frameTimer) == frameTimer >= cooldownDuration

\* RainMortarTower.updateAnimationState
RainMortarTower_updateAnimationState(t0, deltaTime, hasEnemy, pick) ==
    LET t == [t0 EXCEPT !.frameTimer = @ + deltaTime]
    IN CASE t.state = "idle" ->
              IF hasEnemy
              THEN Updated([t EXCEPT !.state = "preheating", !.currentFrame = 1,
                                     !.frameTimer = 0], FALSE, 0)
              ELSE Updated(t, FALSE, 0)
         [] t.state = "preheating" ->
              IF ~hasEnemy
              THEN Updated([t EXCEPT !.state = "idle", !.currentFrame = 0,
                                     !.frameTimer = 0], FALSE, 0)
              ELSE IF PreheatFrameOver(t.kind, t.frameTimer)
              THEN IF t.currentFrame < 12
                   THEN Updated([t EXCEPT !.frameTimer = 0,
                                          !.currentFrame = @ + 1], FALSE, 0)
                   ELSE fireOneMortar(
                            Updated([t EXCEPT !.frameTimer = 0, !.state = "firing",
                                              !.currentFrame = 13,
                                              !.firedCount = 0,
                                              !.burstTimer = 0], FALSE, 0),
                            pick)
              ELSE Updated(t, FALSE, 0)
         [] t.state = "firing" ->
              IF ~hasEnemy
              THEN Updated([t EXCEPT !.state = "cooldown", !.frameTimer = 0],
                           FALSE, 0)
              ELSE LET b == [t EXCEPT !.burstTimer = @ + deltaTime]
                       shot == IF b.firedCount < burstCount
                                  /\ b.burstTimer >= burstInterval
                               THEN LET f == fireOneMortar(
                                                 Updated([b EXCEPT !.burstTimer = 0],
                                                         FALSE, 0), pick)
                                    IN [f EXCEPT !.tower.currentFrame =
                                            Min(13 + (f.tower.firedCount % 2), 15)]
                               ELSE Updated(b, FALSE, 0)
                   IN IF BurstComplete(shot.tower.firedCount)
                      THEN [shot EXCEPT !.tower.state = "cooldown",
                                        !.tower.frameTimer = 0]
                      ELSE shot
         [] OTHER ->
              IF CooldownOver(t.frameTimer)
              THEN IF hasEnemy
                   THEN Updated([t EXCEPT !.frameTimer = 0, !.state = "preheating",
                                          !.currentFrame = 1], FALSE, 0)
                   ELSE Updated([t EXCEPT !.frameTimer = 0, !.state = "idle",
                                          !.currentFrame = 0], FALSE, 0)
              ELSE Updated(t, FALSE, 0)

\* RainMortarTower.update on the enemies in range and the one Math.random
\* would pick among them
RainMortarTower_update(t, deltaTime, inRange, pick) ==
    RainMortarTower_updateAnimationState([t EXCEPT !.enemiesInRange = inRange],
                                         deltaTime, inRange # {}, pick)

\* tower.update as Game.updateTowers calls it: inRange are the living enemies
\* in the range pattern, pick the one findTarget or Math.random selects
TowerUpdate(t, deltaTime, inRange, pick) ==
    CASE t.kind = "antiaircraft" -> AntiaircraftTower_update(t, deltaTime, pick)
      [] t.kind = "laser" -> LaserTower_update(t, deltaTime, pick)
      [] OTHER -> RainMortarTower_update(t, deltaTime, inRange, pick)

(***************************************************************************)
(* Enemies as objects: Enemy, CapooAK47, CapooBubbleTea.  Times are in ms, *)
(* pixel positions in 1/10000 px.                                          *)
(***************************************************************************)
\* Enemy.tileSize
tileSize == 64

Abs(n) == IF n < 0 THEN -n ELSE n

Sign(n) == IF n < 0 THEN -1 ELSE IF n > 0 THEN 1 ELSE 0

\* GameMap.tileToPixel
tileToPixel(x, y) ==
    [x |-> (x * tileSize + tileSize \div 2) * 10000,
     y |-> (y * tileSize + tileSize \div 2) * 10000]

\* stats.moveSpeed, in tenths of a tile per second
moveSpeed(type) ==
    CASE type = "zombie" -> 5
      [] type = "capoo_swordsman" -> 8
      [] type = "capoo_bubbletea" -> 6
      [] OTHER -> 5

\* the fields of a new enemy at startPos, after setPath(path)
NewEnemy(id, type, startPos, path) ==
    [id |-> id, type |-> type, alive |-> TRUE, position |-> startPos,
     path |-> path, pathIndex |-> 0,
     state |-> "moving", attackCooldown |-> 0, attackTimer |-> 0,
     frameTimer |-> 0, currentFrame |-> 0, fireTimer |-> 0, fired |-> 0,
     currentTargetId |-> 0]

\* what an enemy's update returns: its fields after it, whether it reached
\* the end of its path, and the shots it fired
Moved(e, reachedEnd, shots) == [enemy |-> e, reachedEnd |-> reachedEnd, shots |-> shots]

\* Enemy.update; a path runs through the centres of adjacent tiles, so dx or
\* dy is 0 and the distance is the other's absolute value
Enemy_update(e, deltaTime) ==
    IF ~e.alive \/ Len(e.path) = 0 THEN Moved(e, FALSE, 0)
    ELSE IF e.pathIndex >= Len(e.path) THEN Moved(e, TRUE, 0)
    ELSE LET targetTile == e.path[e.pathIndex + 1]
             targetPos == tileToPixel(targetTile.x, targetTile.y)
             dx == targetPos.x - e.position.x
             dy == targetPos.y - e.position.y
             distance == Abs(dx) + Abs(dy)
             moveDistance == moveSpeed(e.type) * tileSize * deltaTime
         IN IF distance <= moveDistance
            THEN LET a == [e EXCEPT !.position = targetPos, !.pathIndex = @ + 1]
                 IN Moved(a, a.pathIndex >= Len(a.path), 0)
            ELSE Moved([e EXCEPT !.position =
                           [x |-> @.x + Sign(dx) * moveDistance,
                            y |-> @.y + Sign(dy) * moveDistance]], FALSE, 0)

\* CapooAK47: frameDuration, attackInterval, bulletCount, attackDuration and
\* the number of frames of its attack animation
ak47FrameDuration == 100

ak47AttackInterval == 4000

bulletCount == 20

attackDuration == 1600

ak47FrameCount == 3

\* CapooBubbleTea: frameDuration, attackInterval, pearlCount,
\* pearlFireInterval and the number of frames of its attack animation
bubbleFrameDuration == 50

bubbleAttackInterval == 1500

pearlCount == 10

pearlFireInterval == 50

bubbleFrameCount == 20

\* CapooAK47.updateAttacking, the onFireBullets callback being set;
\* bulletFireTimer >= attackDuration / bulletCount is kept exact
CapooAK47_updateAttacking(e0, deltaTime) ==
    LET e1 == [e0 EXCEPT !.attackTimer = @ + deltaTime,
                         !.frameTimer = @ + deltaTime,
                         !.fireTimer = @ + deltaTime]
        e2 == IF e1.frameTimer >= ak47FrameDuration
              THEN [e1 EXCEPT !.frameTimer = 0,
                              !.currentFrame = (@ + 1) % ak47FrameCount]
              ELSE e1
        fire == e2.fireTimer * bulletCount >= attackDuration
                /\ e2.fired < bulletCount
        e3 == IF fire THEN [e2 EXCEPT !.fireTimer = 0, !.fired = @ + 1] ELSE e2
        durationDone == e3.attackTimer >= attackDuration
        bulletsDone == e3.fired >= bulletCount
        e4 == IF durationDone /\ bulletsDone
              THEN [e3 EXCEPT !.currentFrame = 0, !.fired = 0, !.fireTimer = 0,
                              !.attackTimer = 0, !.state = "moving",
                              !.attackCooldown = ak47AttackInterval]
              ELSE e3
    IN Moved(e4, FALSE, IF fire /\ e2.currentTargetId # 0 THEN 1 ELSE 0)

\* CapooBubbleTea.updateAttacking, the onFirePearls callback being set
CapooBubbleTea_updateAttacking(e0, deltaTime) ==
    LET e1 == [e0 EXCEPT !.frameTimer = @ + deltaTime]
        e2 == IF e1.frameTimer >= bubbleFrameDuration
              THEN [e1 EXCEPT !.frameTimer = 0, !.currentFrame = @ + 1]
              ELSE e1
        halfwayFrame == bubbleFrameCount \div 2
        e3 == [e2 EXCEPT !.fireTimer = @ + deltaTime]
        fire == /\ e3.currentFrame >= halfwayFrame
                /\ e3.fireTimer >= pearlFireInterval
                /\ e3.fired < pearlCount
        e4 == IF fire THEN [e3 EXCEPT !.fireTimer = 0, !.fired = @ + 1] ELSE e3
        animationDone == e4.currentFrame >= bubbleFrameCount
        pearlsDone == e4.fired >= pearlCount
        e5 == IF animationDone /\ pearlsDone
              THEN [e4 EXCEPT !.currentFrame = 0, !.fired = 0, !.fireTimer = 0,
                              !.state = "moving",
                              !.attackCooldown = bubbleAttackInterval]
              ELSE e4
    IN Moved(e5, FALSE, IF fire /\ e3.currentTargetId # 0 THEN 1 ELSE 0)

\* a faulty update that counts the cooldown down after the state's update
Capoo_updateCountingDownLast(e, deltaTime) ==
    IF ~e.alive THEN Moved(e, FALSE, 0)
    ELSE LET r == IF e.state = "moving" THEN Enemy_update(e, deltaTime)
                  ELSE IF e.type = "capoo_ak47"
                  THEN CapooAK47_updateAttacking(e, deltaTime)
                  ELSE CapooBubbleTea_updateAttacking(e, deltaTime)
         IN IF r.enemy.attackCooldown > 0
            THEN [r EXCEPT !.enemy.attackCooldown = @ - deltaTime]
            ELSE r

\* CapooAK47.update and CapooBubbleTea.update
Capoo_update(e, deltaTime) ==
    IF ~e.alive THEN Moved(e, FALSE, 0)
    ELSE LET c == IF e.attackCooldown > 0
                  THEN [e EXCEPT !.attackCooldown = @ - deltaTime]
                  ELSE e
         IN IF c.state = "moving" THEN Enemy_update(c, deltaTime)
            ELSE IF c.type = "capoo_ak47"
            THEN CapooAK47_updateAttacking(c, deltaTime)
            ELSE CapooBubbleTea_updateAttacking(c, deltaTime)

\* a faulty tryAttack that attacks while its cooldown runs
AttackRefusedInAttackOnly(state, attackCooldown) == state = "attacking"

\* CapooAK47.tryAttack and CapooBubbleTea.tryAttack: the early return
AttackRefused(state, attackCooldown) ==
    state = "attacking" \/ attackCooldown > 0

\* CapooAK47.tryAttack and CapooBubbleTea.tryAttack on the towers Game passes,
\* in the order of Game.towers; near are those isInRange accepts
tryAttack(e, towerInfos, near) ==
    IF AttackRefused(e.state, e.attackCooldown) THEN e
    ELSE LET hit == {i \in 1..Len(towerInfos) :
                        towerInfos[i].isAlive /\ towerInfos[i].id \in near}
         IN IF hit = {} THEN e
            ELSE LET first == CHOOSE i \in hit : \A j \in hit : i <= j
                 IN [e EXCEPT !.state = "attacking",
                              !.currentTargetId = towerInfos[first].id,
                              !.currentFrame = 0, !.frameTimer = 0,
                              !.fired = 0, !.fireTimer = 0,
                              !.attackTimer =
                                  IF e.type = "capoo_ak47" THEN 0 ELSE @]

\* any enemy's update, by its class
EnemyUpdate(e, deltaTime) ==
    IF e.type \in CounterAttackers THEN Capoo_update(e, deltaTime)
    ELSE Enemy_update(e, deltaTime)

(***************************************************************************)
(* Routes: GameMap gates and PathFinding on a loaded layout                *)
(***************************************************************************)
\* the layouts a game may load: a route from the red gate to the blue gate,
\* a red gate cut off from the blue gate, a map without blue gate
RouteLayouts ==
    { << <<"R", "B">> >>,
      << <<"R", "O", "B">> >>,
      << <<"R", "G">> >> }

Pos(x, y) == [x |-> x, y |-> y]

\* the positions of the tiles of type c, rows first as GameMap.parseLayout
\* scans them
RECURSIVE GatesFrom(_, _, _)
GatesFrom(layout, c, k) ==
    LET w == Len(layout[1])
        x == k % w
        y == k \div w
    IN IF k >= w * Len(layout) THEN << >>
       ELSE (IF layout[y + 1][x + 1] = c THEN <<Pos(x, y)>> ELSE << >>)
            \o GatesFrom(layout, c, k + 1)

\* GameMap.getRedGates, GameMap.getBlueGates
getRedGates(layout) == GatesFrom(layout, "R", 0)

getBlueGates(layout) == GatesFrom(layout, "B", 0)

\* a faulty test: every tile of the map is walkable
isWalkableInside(layout, x, y) ==
    /\ y >= 0 /\ y < Len(layout)
    /\ x >= 0 /\ x < Len(layout[1])

\* GameMap.isWalkable
isWalkable(layout, x, y) ==
    /\ y >= 0 /\ y < Len(layout)
    /\ x >= 0 /\ x < Len(layout[1])
    /\ MAP_CHAR_TO_TYPE(layout[y + 1][x + 1]) \in {"ground", "red_gate", "blue_gate"}

\* PathFinding.getNeighbors: up, down, left, right
getNeighbors(p) ==
    <<Pos(p.x, p.y - 1), Pos(p.x, p.y + 1), Pos(p.x - 1, p.y), Pos(p.x + 1, p.y)>>

\* PathFinding.heuristic: the Manhattan distance
heuristic(a, b) == Abs(a.x - b.x) + Abs(a.y - b.y)

\* a PathNode; parent is << >> for null and <<position>> for a node
PathNode(position, g, end, parent) ==
    [position |-> position, g |-> g, h |-> heuristic(position, end),
     f |-> g + heuristic(position, end), parent |-> parent]

\* the selection loop of findPath: the first node of the open list with the
\* least f
currentIndexOf(openList) ==
    CHOOSE i \in 1..Len(openList) :
        /\ \A j \in 1..Len(openList) : openList[i].f <= openList[j].f
        /\ \A j \in 1..(i - 1) : openList[j].f > openList[i].f

\* a faulty backtrack: the start node is left out of the path
RECURSIVE buildPathWithoutStart(_, _)
buildPathWithoutStart(node, closed) ==
    IF node.parent = << >> THEN << >>
    ELSE LET k == CHOOSE i \in 1..Len(closed) :
                     closed[i].position = node.parent[1]
         IN Append(buildPathWithoutStart(closed[k], closed), node.position)

\* PathFinding.buildPath: the positions from the start node to the node,
\* following parent; the parents are among the closed nodes
RECURSIVE buildPath(_, _)
buildPath(node, closed) ==
    IF node.parent = << >> THEN <<node.position>>
    ELSE LET k == CHOOSE i \in 1..Len(closed) :
                     closed[i].position = node.parent[1]
         IN Append(buildPath(closed[k], closed), node.position)

\* the loop of findPath over the neighbours of currentNode, from the i-th
\* on: the open list it leaves
RECURSIVE Neighbours(_, _, _, _, _, _)
Neighbours(layout, end, currentNode, closed, openList, i) ==
    LET neighbors == getNeighbors(currentNode.position)
    IN IF i > Len(neighbors) THEN openList
       ELSE LET neighborPos == neighbors[i]
                tentativeG == currentNode.g + 1
                S == {k \in 1..Len(openList) :
                         openList[k].position = neighborPos}
                open1 ==
                    IF \E k \in 1..Len(closed) : closed[k].position = neighborPos
                    THEN openList
                    ELSE IF ~isWalkable(layout, neighborPos.x, neighborPos.y)
                    THEN openList
                    ELSE IF S = {}
                    THEN Append(openList,
                                PathNode(neighborPos, tentativeG, end,
                                         <<currentNode.position>>))
                    ELSE LET k == CHOOSE n \in S : TRUE
                         IN IF tentativeG < openList[k].g
                            THEN [openList EXCEPT ![k] =
                                     PathNode(neighborPos, tentativeG, end,
                                              <<currentNode.position>>)]
                            ELSE openList
            IN Neighbours(layout, end, currentNode, closed, open1, i + 1)

\* the main loop of PathFinding.findPath: openList holds the nodes to
\* explore, closed the explored ones
RECURSIVE Search(_, _, _, _)
Search(layout, end, openList, closed) ==
    IF openList = << >> THEN << >>
    ELSE LET currentIndex == currentIndexOf(openList)
             currentNode == openList[currentIndex]
             closed1 == Append(closed, currentNode)
         IN IF currentNode.position = end THEN buildPath(currentNode, closed)
            ELSE Search(layout, end,
                        Neighbours(layout, end, currentNode, closed1,
                                   splice(openList, currentIndex), 1),
                        closed1)

\* PathFinding.findPath
findPath(layout, start, end) ==
    Search(layout, end, <<PathNode(start, 0, end, << >>)>>, << >>)

\* a faulty choice: the path to the last reachable gate is kept
ShorterIfFound(path, shortestPath) == Len(path) > 0

\* the test of findPathToNearestBlueGate:
\* path.length > 0 && path.length < shortestLength, Infinity before a path is kept
Shorter(path, shortestPath) ==
    Len(path) > 0 /\ (shortestPath = << >> \/ Len(path) < Len(shortestPath))

\* the shortest non-empty path among those to the gates from the k-th on
RECURSIVE ShortestFrom(_, _, _, _, _)
ShortestFrom(layout, start, gates, k, best) ==
    IF k > Len(gates) THEN best
    ELSE LET path == findPath(layout, start, gates[k])
         IN ShortestFrom(layout, start, gates, k + 1,
                IF Shorter(path, best) THEN path ELSE best)

\* PathFinding.findPathToNearestBlueGate
findPathToNearestBlueGate(layout, start) ==
    LET blueGates == getBlueGates(layout)
    IN IF Len(blueGates) = 0 THEN << >>
       ELSE IF Len(blueGates) = 1 THEN findPath(layout, start, blueGates[1])
       ELSE ShortestFrom(layout, start, blueGates, 1, << >>)

NoFrame == [types |-> << >>, inSight |-> {}, reached |-> {}]

NoHit ==
    [id |-> -1, stored |-> 0, counter |-> 0, used |-> 0, damage |-> 0, n |-> 0]

(***************************************************************************)
(* Attack instances aimed at enemies: Projectile and GatlingBullet         *)
(* An instance flies on the straight line to its target; distance is what  *)
(* is left of that line, in pixels.                                        *)
(***************************************************************************)
\* ZOMBIE_STATS
ZombieStats == [health |-> 50, maxHealth |-> 50, defense |-> 5, magicResist |-> 0]

\* a zombie of the enemy list with the health the earlier hits left it
ShotEnemy(id, health) ==
    [id |-> id, alive |-> TRUE, health |-> health,
     defense |-> ZombieStats.defense, magicResist |-> ZombieStats.magicResist]

\* Enemy.takeDamage
takeDamage(e, damage) ==
    LET health == e.health - damage
    IN IF health <= 0 THEN [e EXCEPT !.health = 0, !.alive = FALSE]
       ELSE [e EXCEPT !.health = health]

\* the speed fireProjectile gives a Projectile, in pixels per second
projectileSpeed == 300
\* the speed fireGatlingBullet gives a GatlingBullet
gatlingSpeed == 600
\* PROTOTYPE_STATS.attack, the damage of a Projectile
prototypeAttack == 20
\* GATLING_STATS.attack, the damage of a GatlingBullet
gatlingAttack == 14

\* new Projectile(...) and new GatlingBullet(...)
NewShot(id, damage, targetId, distance) ==
    [id |-> id, damage |-> damage, targetId |-> targetId,
     distance |-> distance, alive |-> TRUE]

\* Projectile.update: the projectile after the frame and whether it hit
Projectile_update(p, deltaTime) ==
    LET moveDistance == (projectileSpeed * deltaTime) \div 1000
    IN IF ~p.alive THEN [shot |-> p, hit |-> FALSE]
       ELSE IF p.distance <= moveDistance \/ p.distance < 10
       THEN [shot |-> [p EXCEPT !.distance = 0], hit |-> TRUE]
       ELSE [shot |-> [p EXCEPT !.distance = @ - moveDistance], hit |-> FALSE]

\* GatlingBullet.update
GatlingBullet_update(b, deltaTime) ==
    LET moveDistance == (gatlingSpeed * deltaTime) \div 1000
    IN IF ~b.alive THEN [shot |-> b, hit |-> FALSE]
       ELSE IF b.distance < 15
       THEN [shot |-> [b EXCEPT !.alive = FALSE], hit |-> TRUE]
       ELSE IF moveDistance >= b.distance
       THEN [shot |-> [b EXCEPT !.distance = 0, !.alive = FALSE], hit |-> TRUE]
       ELSE [shot |-> [b EXCEPT !.distance = @ - moveDistance], hit |-> FALSE]

\* this.enemies.find((e) => e.id === id): its position in the list, 0 for
\* undefined
find(es, id) ==
    IF \E k \in 1..Len(es) : es[k].id = id
    THEN CHOOSE k \in 1..Len(es) :
            es[k].id = id /\ \A j \in 1..(k - 1) : es[j].id # id
    ELSE 0

\* a faulty test: a target that is in the list but dead is still hit
TargetMissingIfAbsent(es, k) == k = 0

\* the test of updateProjectiles: !target || !target.isAlive()
TargetMissing(es, k) == k = 0 \/ ~es[k].alive

\* the health left in an enemy list
HealthOf(es) == SumOver([k \in 1..Len(es) |-> es[k].health], 1..Len(es))

\* what the processing of one attack instance did, seen from outside: g is
\* the game before it and h the game after it
Observed(g, h, shot) ==
    [id |-> shot.id,
     targetId |-> shot.targetId,
     lost |-> ~\E k \in 1..Len(g.enemies) :
                 g.enemies[k].id = shot.targetId /\ g.enemies[k].alive,
     damage |-> HealthOf(g.enemies) - HealthOf(h.enemies),
     reward |-> h.gold - g.gold,
     destroyed |-> /\ ~\E i \in 1..Len(h.projectiles) :
                        h.projectiles[i].id = shot.id /\ h.projectiles[i].alive
                   /\ ~\E i \in 1..Len(h.gatlingBullets) :
                        h.gatlingBullets[i].id = shot.id]

\* the hit of an instance of the given damage on the enemy at position k
HitEnemy(g, k, baseDamage) ==
    LET e == g.enemies[k]
        damage == calculateDamage(baseDamage * DmgDen, "physical",
                                  e.defense, e.magicResist)
        e1 == takeDamage(e, damage)
    IN [g EXCEPT !.enemies[k] = e1,
                 !.gold = IF ~e1.alive THEN @ + KillReward ELSE @]

\* Game.updateProjectiles from position i of the list on
RECURSIVE updateProjectiles(_, _, _)
updateProjectiles(g, deltaTime, i) ==
    IF i > Len(g.projectiles) THEN g
    ELSE LET p == g.projectiles[i]
             k == find(g.enemies, p.targetId)
             r == Projectile_update(p, deltaTime)
             h == IF TargetMissing(g.enemies, k)
                  THEN [g EXCEPT !.projectiles[i].alive = FALSE]
                  ELSE IF r.hit
                  THEN [HitEnemy(g, k, p.damage)
                           EXCEPT !.projectiles[i] = [r.shot EXCEPT !.alive = FALSE]]
                  ELSE [g EXCEPT !.projectiles[i] = r.shot]
         IN IF ~p.alive THEN updateProjectiles(g, deltaTime, i + 1)
            ELSE updateProjectiles(
                     [h EXCEPT !.log = Append(@, Observed(g, h, p))],
                     deltaTime, i + 1)

\* Game.updateGatlingBullets from position i of the list down
RECURSIVE updateGatlingBullets(_, _, _)
updateGatlingBullets(g, deltaTime, i) ==
    IF i = 0 THEN g
    ELSE LET b == g.gatlingBullets[i]
             S == {k \in 1..Len(g.enemies) :
                      g.enemies[k].id = b.targetId /\ g.enemies[k].alive}
             r == GatlingBullet_update(b, deltaTime)
             h == IF S = {}
                  THEN [g EXCEPT !.gatlingBullets = splice(@, i)]
                  ELSE IF r.hit
                  THEN [HitEnemy(g, CHOOSE k \in S : \A j \in S : k <= j, b.damage)
                           EXCEPT !.gatlingBullets = splice(@, i)]
                  ELSE IF ~r.shot.alive
                  THEN [g EXCEPT !.gatlingBullets = splice(@, i)]
                  ELSE [g EXCEPT !.gatlingBullets[i] = r.shot]
         IN updateGatlingBullets(
                [h EXCEPT !.log = Append(@, Observed(g, h, b))],
                deltaTime, i - 1)

\* the fire events of one frame of updateTowers: fireProjectile and
\* fireGatlingBullet, each taking its id from entityIdCounter
RECURSIVE Fire(_, _)
Fire(g, fired) ==
    IF fired = << >> THEN g
    ELSE LET f == Head(fired)
             h == IF f.kind = "projectile"
                  THEN [g EXCEPT !.projectiles =
                            Append(@, NewShot(g.entityIdCounter, prototypeAttack,
                                              f.targetId, f.distance)),
                        !.entityIdCounter = @ + 1]
                  ELSE [g EXCEPT !.gatlingBullets =
                            Append(@, NewShot(g.entityIdCounter, gatlingAttack,
                                              f.targetId, f.distance)),
                        !.entityIdCounter = @ + 1]
         IN Fire(h, Tail(fired))

(***************************************************************************)
(* Towers as objects: their stats, the guard aura and the shots of enemies *)
(* The excerpt of the default map is loaded whole.                         *)
(***************************************************************************)
\* GATLING_STATS
GatlingStats == [health |-> 150, maxHealth |-> 150, defense |-> 5, magicResist |-> 5]

\* GUARD_STATS
GuardStats == [health |-> 500, maxHealth |-> 500, defense |-> 50, magicResist |-> 40]

\* GUARD_CONFIG.auraBonus
auraBonus == 10

\* CAPOO_BUBBLETEA_STATS.attack, the damage of a bubble pearl
pearlDamage == 15
\* CAPOO_AK47_STATS.attack, the damage of an AK47 bullet
ak47BulletDamage == 20

\* new GatlingTower(id, {x, y}) and new GuardTower(id, {x, y}): the stats are
\* a copy of the type's defaults
NewTower(id, type, x, y) ==
    [id |-> id, type |-> type, x |-> x, y |-> y, alive |-> TRUE,
     auraEffect |-> FALSE,
     stats |-> IF type = "guard" THEN GuardStats ELSE GatlingStats]

\* Tower.setAuraEffect: the tower keeps the glow it is given
setAuraEffect(t) == [t EXCEPT !.auraEffect = TRUE]

\* Tower.clearAuraEffect
clearAuraEffect(t) == [t EXCEPT !.auraEffect = FALSE]

\* Tower.getGuardAuraBonus
getGuardAuraBonus(t) == auraBonus

\* Tower.getDefenseWithBonus
getDefenseWithBonus(t, bonus) == t.stats.defense + bonus

\* Tower.takeDamage
Tower_takeDamage(t, damage) ==
    LET health == t.stats.health - damage
    IN IF health <= 0 THEN [t EXCEPT !.stats.health = 0, !.alive = FALSE]
       ELSE [t EXCEPT !.stats.health = health]

\* GameMap.getTile on the whole excerpt
getTileOfExcerpt(x, y) ==
    IF x < 0 \/ x >= Len(Layout[1]) \/ y < 0 \/ y >= Len(Layout) THEN "none"
    ELSE MAP_CHAR_TO_TYPE(Layout[y + 1][x + 1])

\* the keys of guardAuraMap that can be written on the excerpt
ExcerptKeys == ((-1)..Len(Layout[1])) \X ((-1)..Len(Layout))

\* GameMap.canPlaceTower and canPlaceGuardTower on the excerpt; a tile has a
\* tower while a tower of the list stands on it
canPlaceObj(ts, x, y, type) ==
    /\ getTileOfExcerpt(x, y) \in
          (IF type = "guard" THEN {"platform", "ground"} ELSE {"platform"})
    /\ ~\E i \in 1..Len(ts) : ts[i].x = x /\ ts[i].y = y

\* whether tower t stands on a tile the guard tower affects
Covers(guard, t) ==
    \E j \in 1..4 : getAuraAffectedTiles(guard)[j] = <<t.x, t.y>>

\* Game.onGuardTowerPlaced on the tower list: the glow given to the towers on
\* the affected tiles
AuraGlowPlaced(ts, guard) ==
    [i \in 1..Len(ts) |->
        IF /\ Covers(guard, ts[i])
           /\ ts[i].id # guard.id
           /\ ts[i].alive
           /\ ~ts[i].auraEffect
        THEN setAuraEffect(ts[i]) ELSE ts[i]]

\* Game.onGuardTowerRemoved on the tower list, m being the ledger it leaves:
\* the glow taken from the towers on the tiles whose count fell to 0
AuraGlowRemoved(ts, m, guard) ==
    [i \in 1..Len(ts) |->
        IF /\ Covers(guard, ts[i])
           /\ ts[i].id # guard.id
           /\ m[<<ts[i].x, ts[i].y>>] = 0
        THEN clearAuraEffect(ts[i]) ELSE ts[i]]

\* Game.placeTower on the tower objects
placeTowerObj(x, y, towerType) ==
    LET t0 == NewTower(entityIdCounter, towerType, x, y)
        t == IF tileHasGuardAura(x, y) /\ ~t0.auraEffect
             THEN setAuraEffect(t0) ELSE t0
        ts == Append(towerObjs, t)
    IN [towers |-> IF towerType = "guard" THEN AuraGlowPlaced(ts, t) ELSE ts,
        guardAuraMap |-> IF towerType = "guard"
                         THEN onGuardTowerPlaced(guardAuraMap, t)
                         ELSE guardAuraMap,
        entityIdCounter |-> entityIdCounter + 1]

\* the release of the tower object at position i of the list ts under the
\* ledger m, shared by removeTower and cleanupDeadEntities
ReleaseObj(ts, m, i) ==
    LET t == ts[i]
        m1 == IF t.type = "guard" THEN onGuardTowerRemoved(m, t) ELSE m
        ts1 == IF t.type = "guard" THEN AuraGlowRemoved(ts, m1, t) ELSE ts
    IN [towers |-> splice(ts1, i), guardAuraMap |-> m1]

\* Game.cleanupDeadEntities on the tower objects, from position i down
RECURSIVE cleanupDeadTowers(_, _)
cleanupDeadTowers(g, i) ==
    IF i = 0 THEN g
    ELSE IF ~g.towers[i].alive
    THEN cleanupDeadTowers(ReleaseObj(g.towers, g.guardAuraMap, i), i - 1)
    ELSE cleanupDeadTowers(g, i - 1)

\* a faulty bonus: granted whatever the count of the tower's tile
DefenseBonusAlways(t) == getGuardAuraBonus(t)

\* the bonus updateBubblePearls and updateAK47Bullets give the target
DefenseBonus(t) ==
    IF tileHasGuardAura(t.x, t.y) THEN getGuardAuraBonus(t) ELSE 0

\* the hit of a bubble pearl or an AK47 bullet of the given damage aimed at
\* the tower targetId: the tower list it leaves and the record of the damage
\* resolution
TowerHitBy(baseDamage, targetId) ==
    LET S == {i \in 1..Len(towerObjs) :
                 towerObjs[i].id = targetId /\ towerObjs[i].alive}
    IN IF S = {} THEN [towers |-> towerObjs, hit |-> towerHit]
       ELSE LET i == CHOOSE k \in S : \A j \in S : k <= j
                target == towerObjs[i]
                used == getDefenseWithBonus(target, DefenseBonus(target))
                damage == calculateDamage(baseDamage * DmgDen, "physical",
                                          used, target.stats.magicResist)
            IN [towers |-> [towerObjs EXCEPT ![i] = Tower_takeDamage(target, damage)],
                hit |-> [id |-> target.id,
                         stored |-> target.stats.defense,
                         counter |-> guardAuraMap[<<target.x, target.y>>],
                         used |-> used,
                         damage |-> damage,
                         n |-> towerHit.n + 1]]

(***************************************************************************)
(* Initial states                                                          *)
(***************************************************************************)
NoArgs == [baseDamage |-> 0, damageType |-> "none", defense |-> 0,
           magicResist |-> 0, physicalPen |-> 0, magicPen |-> 0]

GameInitOn(loaded, keys) ==
    /\ now = 0
    /\ waves \in loaded
    /\ currentWaveIndex = -1
    /\ spawnedCount = 0
    /\ waveStartTime = 0
    /\ waveInProgress = FALSE
    /\ allEnemiesSpawned = FALSE
    /\ gameState = "idle"
    /\ coreHealth = MaxCoreHealth
    /\ gold = InitialGold
    /\ enemies = NoEnemies
    /\ timers = << >>
    /\ ticking = FALSE
    /\ entityIdCounter = 0
    /\ towers = << >>
    /\ hasTower = [k \in keys |-> FALSE]
    /\ guardAuraMap = [k \in AuraKeys |-> 0]
    /\ isDragging = FALSE
    /\ draggingTowerType = "none"
    /\ draggingTowerCost = 0
    /\ currentTower = NoTower
    /\ waveEndTime = 0
    /\ removedTowers = {}
    /\ auraReleases = << >>
    /\ out = NoOutput

GameInit(loaded) == GameInitOn(loaded, Tiles)

DmgIdle == dmgArgs = NoArgs /\ dmgResult = 0

BurstIdle == burstTower = NoBurstTower /\ tick = NoTick /\ burstLog = << >>

FrameIdle == routeMap = << >> /\ enemyObjs = << >> /\ frame = NoFrame

ShotIdle ==
    /\ shotEnemies = << >>
    /\ projectiles = << >>
    /\ gatlingBullets = << >>
    /\ shotLog = << >>

AuraIdle == towerObjs = << >> /\ towerHit = NoHit

NoClock ==
    [ran |-> FALSE, wave |-> -1, elapsed |-> 0, towers |-> 0, enemies |-> 0,
     instances |-> 0, scheduler |-> 0]

NoShot == [id |-> -1, kind |-> "none", distance |-> 0]

NoPhases == [calls |-> << >>, spawned |-> {}, fired |-> NoShot, dead |-> {}]

ClockIdle == lastTime = 0 /\ clock = NoClock /\ phases = NoPhases

NoPath == [start |-> Pos(0, 0), end |-> Pos(0, 0)]

PathIdle == pathArgs = NoPath /\ pathResult = << >>

PureIdle ==
    DmgIdle /\ BurstIdle /\ FrameIdle /\ ShotIdle /\ AuraIdle /\ ClockIdle /\ PathIdle

InitWith(table) == GameInit(Loaded(table)) /\ PureIdle

Init == InitWith(createDefaultWaves)

InitRev2 == InitWith(createDefaultWavesRev2)

(***************************************************************************)
(* Handlers                                                                *)
(***************************************************************************)
\* Game.endGame(true) run by the onAllWavesComplete callback
Victory(r) == "onAllWavesComplete" \in r.cb

\* a faulty condition: the game is lost only below zero
DefeatBelowZero(health) == health < 0

\* the last test of Game.gameLoop: if (this.coreHealth <= 0) endGame(false)
Defeat(health) == health <= 0

\* Game.startGame, the start button
Game_startGame ==
    /\ gameState # "playing"
    /\ WithinOvershoot
    /\ LET r == startNextWave IN
        /\ SetWave(r)
        /\ gameState' = IF Victory(r) THEN "victory" ELSE "playing"
        /\ out' = Output("startGame", r.ret, r.cb)
    /\ ticking' = TRUE
    /\ UNCHANGED <<now, waves, coreHealth, gold, enemies, timers,
                   entityIdCounter, waveEndTime>>
    /\ UNCHANGED towerVars

StartGame == Game_startGame /\ UNCHANGED pureVars

\* the setTimeout callback of onWaveEnd: this.waveSystem.startNextWave()
TimerFire ==
    /\ UNCHANGED pureVars
    /\ timers # << >>
    /\ Head(timers) <= now
    /\ WithinOvershoot
    /\ LET r == startNextWave IN
        /\ SetWave(r)
        /\ gameState' = IF Victory(r) THEN "victory" ELSE gameState
        /\ ticking' = IF Victory(r) THEN FALSE ELSE ticking
        /\ out' = Output("timer", r.ret, r.cb)
    /\ timers' = Tail(timers)
    /\ UNCHANGED <<now, waves, coreHealth, gold, enemies, entityIdCounter,
                   waveEndTime>>
    /\ UNCHANGED towerVars

\* the clock moves to the next observed instant; a timeout that is due runs
\* before the clock moves on
AdvanceTo(step, limit) ==
    /\ UNCHANGED pureVars
    /\ now < limit * step
    /\ \A i \in 1..Len(timers) : timers[i] > now
    /\ now' = now + step
    /\ out' = NoOutput
    /\ UNCHANGED <<waves, waveVars, gameState, coreHealth, gold, enemies,
                   timers, ticking, entityIdCounter, waveEndTime>>
    /\ UNCHANGED towerVars

Advance == AdvanceTo(MsPerStep, MaxSteps)

\* in the tower specification the clock is observed while a wave is in
\* progress: without one, no handler of that specification reads it
AdvanceTower ==
    /\ waveInProgress
    /\ AdvanceTo(TowerHorizon, 1)

\* Game.reset: towers, enemies, projectiles (and flame particles) are
\* destroyed and their lists emptied; the lists of gatling bullets, pearls,
\* AK47 bullets, mortar shells and beams, the timeouts and entityIdCounter are
\* not touched
Reset ==
    /\ towers' = << >>
    /\ towerObjs' = << >>
    /\ enemies' = NoEnemies
    /\ enemyObjs' = << >>
    /\ shotEnemies' = << >>
    /\ projectiles' = << >>
    /\ UNCHANGED <<dmgVars, burstVars, routeMap, frame, gatlingBullets, shotLog,
                   towerHit, clockVars, pathVars>>
    /\ gameState' = "idle"
    /\ coreHealth' = MaxCoreHealth
    /\ gold' = ResetGold
    /\ currentWaveIndex' = -1
    /\ spawnedCount' = 0
    /\ waveStartTime' = 0
    /\ waveInProgress' = FALSE
    /\ allEnemiesSpawned' = FALSE
    /\ ticking' = FALSE
    /\ out' = Output("reset", FALSE, {})
    /\ UNCHANGED <<now, waves, timers, entityIdCounter, hasTower, guardAuraMap,
                   isDragging, draggingTowerType, draggingTowerCost,
                   currentTower, waveEndTime, removedTowers, auraReleases>>

\* the enemies the release loop spawned: events count+1 .. count1 of the wave
Spawned(wave, count, count1, t) ==
    Cardinality({i \in (count + 1)..count1 : wave.enemies[i].type = t})

\* what can happen to n living enemies of one type in a frame: <<k, r>> with
\* k of them killed and r of them at the blue gate
Splits(n) == {p \in (0..n) \X (0..n) : p[1] + p[2] <= n}

\* the outcomes of a frame for the living enemies es, per type
Fates(es) ==
    {[t \in EnemyTypes |-> CASE t = "zombie" -> z
                             [] t = "capoo_swordsman" -> s
                             [] t = "capoo_bubbletea" -> b
                             [] OTHER -> a] :
        z \in Splits(es["zombie"]), s \in Splits(es["capoo_swordsman"]),
        b \in Splits(es["capoo_bubbletea"]), a \in Splits(es["capoo_ak47"])}

\* a faulty condition: checkWaveComplete without isAllEnemiesSpawned()
checkWaveCompleteNoSpawnCheck(inProgress, allSpawned, alive) ==
    inProgress /\ alive = 0

\* the condition under which Game.checkWaveComplete marks the wave complete
checkWaveComplete(inProgress, allSpawned, alive) ==
    inProgress /\ allSpawned /\ alive = 0

\* Game.gameLoop, one frame: waveSystem.update(), the updates of towers,
\* enemies and attack instances (killed: enemies brought to zero health by
\* tower fire, reached: enemies that entered the blue gate, dead: towers
\* destroyed by enemy fire), cleanupDeadEntities, checkWaveComplete and the
\* core-health check
Game_gameLoop ==
    /\ ticking
    /\ gameState = "playing"
    /\ LET wave == WaveAt(currentWaveIndex)
           count1 == IF waveInProgress
                     THEN SpawnLoop(wave, spawnedCount, now - waveStartTime)
                     ELSE spawnedCount
           enemies1 == [t \in EnemyTypes |->
                          enemies[t] + IF waveInProgress
                                       THEN Spawned(wave, spawnedCount, count1, t)
                                       ELSE 0]
           allSpawned1 == IF waveInProgress /\ count1 >= Len(wave.enemies)
                          THEN TRUE ELSE allEnemiesSpawned
       IN
       \E fate \in Fates(enemies1) :
       \E dead \in SUBSET (1..Len(towers)) :
          /\ dead # {} => \E t \in CounterAttackers : enemies1[t] > 0
          /\ LET killed == [t \in EnemyTypes |-> fate[t][1]]
                 reached == [t \in EnemyTypes |-> fate[t][2]]
                 enemies2 == [t \in EnemyTypes |->
                                enemies1[t] - killed[t] - reached[t]]
                 coreHealth1 == coreHealth - AliveEnemies(reached)
                 reaped == ReapTowers(
                     [towers |-> towers, hasTower |-> hasTower,
                      guardAuraMap |-> guardAuraMap,
                      auraReleases |-> auraReleases,
                      removedTowers |-> removedTowers], dead, Len(towers))
                 complete == checkWaveComplete(waveInProgress, allSpawned1,
                                               AliveEnemies(enemies2))
                 more == ~isAllWavesComplete(currentWaveIndex, FALSE)
             IN
             /\ spawnedCount' = count1
             /\ allEnemiesSpawned' = allSpawned1
             /\ entityIdCounter' = entityIdCounter + (count1 - spawnedCount)
             /\ enemies' = enemies2
             /\ gold' = gold + KillReward * AliveEnemies(killed)
             /\ coreHealth' = coreHealth1
             /\ towers' = reaped.towers
             /\ hasTower' = reaped.hasTower
             /\ guardAuraMap' = reaped.guardAuraMap
             /\ auraReleases' = reaped.auraReleases
             /\ removedTowers' = reaped.removedTowers
             /\ waveInProgress' = IF complete THEN FALSE ELSE waveInProgress
             /\ waveEndTime' = IF complete THEN now ELSE waveEndTime
             /\ timers' = IF complete /\ more
                          THEN Append(timers, now + GraceDelay) ELSE timers
             /\ gameState' = IF Defeat(coreHealth1) THEN "defeat" ELSE "playing"
             /\ ticking' = ~Defeat(coreHealth1)
             /\ out' = Output("gameLoop", FALSE,
                   (IF count1 > spawnedCount THEN {"onSpawnEnemy"} ELSE {})
                   \cup (IF complete THEN {"onWaveEnd"} ELSE {}))
    /\ UNCHANGED <<now, waves, currentWaveIndex, waveStartTime, isDragging,
                   draggingTowerType, draggingTowerCost, currentTower>>

GameLoop == Game_gameLoop /\ UNCHANGED pureVars

\* DeploymentBar.startDrag on a unit icon, and Game's onDragStart callback
DragStart(unit) ==
    /\ UNCHANGED pureVars
    /\ ~isDragging
    /\ entityIdCounter < MaxEntityId
    /\ gold >= unit.cost
    /\ isDragging' = TRUE
    /\ draggingTowerType' = unit.type
    /\ draggingTowerCost' = unit.cost
    /\ out' = NoOutput
    /\ UNCHANGED <<now, waves, waveVars, gameState, coreHealth, gold, enemies,
                   timers, ticking, entityIdCounter, towers, hasTower,
                   guardAuraMap, currentTower, waveEndTime, removedTowers,
                   auraReleases>>

\* DeploymentBar.cancelDrag (pointer left the canvas), and onDragCancel
DragCancel ==
    /\ UNCHANGED pureVars
    /\ isDragging
    /\ isDragging' = FALSE
    /\ draggingTowerType' = "none"
    /\ draggingTowerCost' = 0
    /\ out' = NoOutput
    /\ UNCHANGED <<now, waves, waveVars, gameState, coreHealth, gold, enemies,
                   timers, ticking, entityIdCounter, towers, hasTower,
                   guardAuraMap, currentTower, waveEndTime, removedTowers,
                   auraReleases>>

\* DeploymentBar.endDrag: the drop at tile (x, y) handled by handleDragDeploy
EndDrag(x, y) ==
    /\ UNCHANGED pureVars
    /\ isDragging
    /\ isDragging' = FALSE
    /\ LET r == handleDragDeploy(x, y) IN
        /\ gold' = r.gold
        /\ towers' = r.towers
        /\ hasTower' = r.hasTower
        /\ guardAuraMap' = r.guardAuraMap
        /\ entityIdCounter' = r.entityIdCounter
        /\ draggingTowerType' = r.draggingTowerType
        /\ draggingTowerCost' = r.draggingTowerCost
        /\ out' = OutputOf("handleDragDeploy", r.ret, {}, -1, r.why)
    /\ UNCHANGED <<now, waves, waveVars, gameState, coreHealth, enemies,
                   timers, ticking, currentTower, waveEndTime, removedTowers,
                   auraReleases>>

\* Game.selectTower(tower) from a tap on the tower at position i
SelectTower(i) ==
    /\ UNCHANGED pureVars
    /\ i \in 1..Len(towers)
    /\ currentTower' = towers[i]
    /\ out' = NoOutput
    /\ UNCHANGED <<now, waves, waveVars, gameState, coreHealth, gold, enemies,
                   timers, ticking, entityIdCounter, towers, hasTower,
                   guardAuraMap, isDragging, draggingTowerType,
                   draggingTowerCost, waveEndTime, removedTowers, auraReleases>>

\* TowerInfoPanel.handleRemove: removeTower(currentTower), then hide()
RemoveTower ==
    /\ UNCHANGED pureVars
    /\ currentTower # NoTower
    /\ LET r == removeTower(currentTower) IN
        /\ towers' = r.towers
        /\ hasTower' = r.hasTower
        /\ guardAuraMap' = r.guardAuraMap
        /\ auraReleases' = r.auraReleases
        /\ removedTowers' = r.removedTowers
    /\ currentTower' = NoTower
    /\ out' = OutputOf("removeTower", indexOf(towers, currentTower) # 0, {},
                       currentTower.id, "")
    /\ UNCHANGED <<now, waves, waveVars, gameState, coreHealth, gold, enemies,
                   timers, ticking, entityIdCounter, isDragging,
                   draggingTowerType, draggingTowerCost, waveEndTime>>

\* the stage's pointertap: selectTower(null) hides the panel
Deselect ==
    /\ UNCHANGED pureVars
    /\ currentTower # NoTower
    /\ currentTower' = NoTower
    /\ out' = NoOutput
    /\ UNCHANGED <<now, waves, waveVars, gameState, coreHealth, gold, enemies,
                   timers, ticking, entityIdCounter, towers, hasTower,
                   guardAuraMap, isDragging, draggingTowerType,
                   draggingTowerCost, waveEndTime, removedTowers, auraReleases>>

(***************************************************************************)
(* Specifications                                                          *)
(***************************************************************************)
Next ==
    \/ StartGame
    \/ TimerFire
    \/ Advance
    \/ GameLoop
    \/ Reset

\* the scheduler and the game's life cycle on the third revision's waves
Spec == Init /\ [][Next]_vars

\* the same with the scheduling the browser gives: the ticker keeps calling
\* gameLoop while it is registered, a due timeout runs, the clock moves on
FairSpec ==
    Spec /\ WF_vars(GameLoop) /\ WF_vars(TimerFire) /\ WF_vars(Advance)

\* the same, on the second revision's waves
SpecRev2 == InitRev2 /\ [][Next]_vars

\* the tower specification plays the first wave of the second revision
InitTower == GameInit({<<createDefaultWavesRev2[1]>>}) /\ PureIdle

NextTower ==
    \/ StartGame
    \/ AdvanceTower
    \/ GameLoop
    \/ Reset
    \/ \E unit \in ExploredUnits : DragStart(unit)
    \/ DragCancel
    \/ \E x \in 0..MapW, y \in 0..(MapH - 1) : EndDrag(x, y)
    \/ \E i \in 1..Len(towers) : SelectTower(i)
    \/ Deselect
    \/ RemoveTower

\* placement, removal and reaping of towers during the first wave of the
\* second revision, whose enemies fire at towers
SpecTower == InitTower /\ [][NextTower]_vars

\* a call of CombatSystem.calculateDamage on the drawn arguments; the method
\* declares four parameters, so the penetrations a call site passes after
\* them are dropped
CalculateDamage ==
    /\ out.op # "calculateDamage"
    /\ dmgResult' = calculateDamage(dmgArgs.baseDamage, dmgArgs.damageType,
                                    dmgArgs.defense, dmgArgs.magicResist)
    /\ out' = Output("calculateDamage", FALSE, {})
    /\ UNCHANGED <<gameVars, dmgArgs, burstVars, frameVars, shotVars, auraVars,
                   clockVars, pathVars>>

InitDamage ==
    /\ ClockIdle
    /\ PathIdle
    /\ GameInit({<<createDefaultWaves[1]>>})
    /\ dmgArgs \in DamageArgs
    /\ ShotIdle
    /\ AuraIdle
    /\ dmgResult = 0
    /\ BurstIdle
    /\ FrameIdle

NextDamage == CalculateDamage

\* calculateDamage on every drawn argument
SpecDamage == InitDamage /\ [][NextDamage]_vars

\* one frame of Game.updateTowers on the tower: the frame's deltaTime and the
\* enemies in range are the frame's inputs; an idle tower without an enemy is
\* followed for MaxIdleMs
UpdateTowers ==
    \E deltaTime \in DeltaTimes, inRange \in SUBSET TargetIds :
      \E pick \in IF inRange = {} THEN {0} ELSE inRange :
        LET r == TowerUpdate(burstTower, deltaTime, inRange, pick)
            entered == burstTower.state # "firing" /\ r.tower.state = "firing"
            fired == IF r.shouldFire THEN <<r.targetId>> ELSE << >>
        IN /\ (burstTower.state = "idle" /\ inRange = {})
                  => burstTower.frameTimer + deltaTime <= MaxIdleMs
           /\ burstTower' = r.tower
           /\ tick' = [deltaTime |-> deltaTime, hasEnemy |-> inRange # {},
                       shouldFire |-> r.shouldFire, targetId |-> r.targetId]
           /\ burstLog' = IF entered THEN fired ELSE burstLog \o fired
           /\ UNCHANGED <<gameVars, out, dmgVars, clockVars, pathVars, frameVars, shotVars,
                          auraVars>>

InitBurst ==
    /\ ClockIdle
    /\ PathIdle
    /\ GameInit({<<createDefaultWaves[1]>>})
    /\ DmgIdle
    /\ burstTower \in {NewBurstTower(kind) : kind \in TowerKinds}
    /\ tick = NoTick
    /\ ShotIdle
    /\ AuraIdle
    /\ burstLog = << >>
    /\ FrameIdle

NextBurst == UpdateTowers

\* one anti-air, laser or rain-mortar tower updated frame after frame
SpecBurst == InitBurst /\ [][NextBurst]_vars

\* a faulty spawnEnemy that keeps an enemy without route
RouteMissingIgnored(path) == FALSE

\* Game.spawnEnemy: the test that discards the enemy
RouteMissing(path) == Len(path) = 0

\* Game.spawnEnemy on the game fields g (enemies, entityIdCounter)
spawnEnemy(g, layout, type) ==
    LET redGates == getRedGates(layout)
    IN IF Len(redGates) = 0 THEN g
       ELSE LET gate == redGates[1]
                startPos == tileToPixel(gate.x, gate.y)
                path == findPathToNearestBlueGate(layout, gate)
                counted == [g EXCEPT !.entityIdCounter = @ + 1]
            IN IF RouteMissing(path) THEN counted
               ELSE [counted EXCEPT !.enemies =
                        Append(@, NewEnemy(g.entityIdCounter, type, startPos, path))]

\* the onSpawnEnemy callbacks of one WaveSystem.update, in order
RECURSIVE SpawnAll(_, _, _)
SpawnAll(g, layout, types) ==
    IF types = << >> THEN g
    ELSE SpawnAll(spawnEnemy(g, layout, Head(types)), layout, Tail(types))

\* the towerInfos of Game.updateEnemies: the living towers, in the order of
\* Game.towers
RECURSIVE TowerInfos(_, _)
TowerInfos(living, k) ==
    IF k > MaxFrameTowers THEN << >>
    ELSE (IF k \in living THEN <<[id |-> k, isAlive |-> TRUE]>> ELSE << >>)
         \o TowerInfos(living, k + 1)

\* a faulty end of path that leaves the enemy alive
ReachedEndKept(e) == e

\* Game.updateEnemies: enemy.kill() on the enemy that reached the end
ReachedEndKill(e) == [e EXCEPT !.alive = FALSE]

\* Game.updateEnemies on the game fields g from the k-th enemy on; near[k]
\* are the towers in the range pattern of the k-th enemy
RECURSIVE updateEnemies(_, _, _, _, _)
updateEnemies(g, deltaTime, towerInfos, near, k) ==
    IF k > Len(g.enemies) THEN g
    ELSE LET e == g.enemies[k]
         IN IF ~e.alive THEN updateEnemies(g, deltaTime, towerInfos, near, k + 1)
            ELSE LET a == IF e.type \in CounterAttackers
                          THEN tryAttack(e, towerInfos, near[k])
                          ELSE e
                     r == EnemyUpdate(a, deltaTime)
                     h == IF r.reachedEnd
                          THEN [g EXCEPT !.coreHealth = @ - 1,
                                         !.enemies[k] = ReachedEndKill(r.enemy),
                                         !.reached = @ \cup {e.id}]
                          ELSE [g EXCEPT !.enemies[k] = r.enemy]
                 IN updateEnemies(h, deltaTime, towerInfos, near, k + 1)

\* Game.cleanupDeadEntities on the enemies
cleanupDeadEnemies(list) == SelectSeq(list, LAMBDA e : e.alive)

\* Game.gameLoop on the enemies as objects: the spawn events that
\* WaveSystem.update releases, updateEnemies, cleanupDeadEntities and the
\* test of defeat.  The frame's deltaTime, the events due, the living towers
\* and the towers in each enemy's range pattern are the frame's inputs; up to
\* MaxSpawns spawn events are followed.
FrameOf(spawnable, towerIds) ==
    /\ gameState = "playing"
    /\ \E deltaTime \in DeltaTimes, living \in SUBSET towerIds,
          types \in {<<>>} \cup {<<type>> : type \in spawnable} :
        LET g0 == [enemies |-> enemyObjs, entityIdCounter |-> entityIdCounter,
                   coreHealth |-> coreHealth, reached |-> {}]
            g1 == SpawnAll(g0, routeMap, types)
        IN \E near \in [1..Len(g1.enemies) -> SUBSET towerIds] :
            LET g2 == updateEnemies(g1, deltaTime, TowerInfos(living, 1), near, 1)
            IN /\ entityIdCounter + Len(types) <= MaxSpawns
               /\ enemyObjs' = cleanupDeadEnemies(g2.enemies)
               /\ entityIdCounter' = g2.entityIdCounter
               /\ coreHealth' = g2.coreHealth
               /\ gameState' = IF Defeat(g2.coreHealth) THEN "defeat" ELSE gameState
               /\ frame' = [types |-> types,
                            inSight |-> {g1.enemies[k].id :
                                            k \in {j \in 1..Len(g1.enemies) :
                                                      living \cap near[j] # {}}},
                            reached |-> g2.reached]
               /\ UNCHANGED <<now, waves, waveVars, gold, enemies, timers, ticking,
                              waveEndTime, towerVars, out, routeMap, dmgVars, clockVars, pathVars,
                              burstVars, shotVars, auraVars>>

\* a game being played, in its first wave, with a ledger on the given keys
PlayingFrom(keys, t, count, id) ==
    /\ now = t
    /\ waves = <<createDefaultWaves[1]>>
    /\ currentWaveIndex = 0
    /\ spawnedCount = count
    /\ waveStartTime = 0
    /\ waveInProgress = TRUE
    /\ allEnemiesSpawned = FALSE
    /\ gameState = "playing"
    /\ coreHealth = MaxCoreHealth
    /\ gold = InitialGold
    /\ enemies = NoEnemies
    /\ timers = << >>
    /\ ticking = TRUE
    /\ entityIdCounter = id
    /\ towers = << >>
    /\ hasTower = [k \in Tiles |-> FALSE]
    /\ guardAuraMap = [k \in keys |-> 0]
    /\ isDragging = FALSE
    /\ draggingTowerType = "none"
    /\ draggingTowerCost = 0
    /\ currentTower = NoTower
    /\ waveEndTime = 0
    /\ removedTowers = {}
    /\ auraReleases = << >>
    /\ out = NoOutput

\* the same at the start of the wave
PlayingInitOn(keys) == PlayingFrom(keys, 0, 0, 0)

PlayingInit == PlayingInitOn(AuraKeys)

\* the enemies that walk to the blue gate without attacking
WalkerTypes == {"zombie", "capoo_swordsman"}

FrameEnemies == FrameOf(WalkerTypes, {})

InitEnemies ==
    /\ ClockIdle
    /\ PathIdle
    /\ PlayingInit
    /\ DmgIdle
    /\ BurstIdle
    /\ ShotIdle
    /\ AuraIdle
    /\ routeMap \in RouteLayouts
    /\ enemyObjs = << >>
    /\ frame = NoFrame

NextEnemies == FrameEnemies

\* zombies and swordsmen spawned at the red gate and walking to the blue gate
SpecEnemies == InitEnemies /\ [][NextEnemies]_vars

FrameCounter == FrameOf({}, 1..MaxFrameTowers)

\* one AK47 or bubble-tea Capoo at the red gate of the first layout
InitCounter ==
    /\ ClockIdle
    /\ PathIdle
    /\ PlayingInit
    /\ DmgIdle
    /\ BurstIdle
    /\ ShotIdle
    /\ AuraIdle
    /\ routeMap = << <<"R", "B">> >>
    /\ \E type \in CounterAttackers :
         enemyObjs = <<NewEnemy(0, type, tileToPixel(0, 0),
                                findPathToNearestBlueGate(routeMap, Pos(0, 0)))>>
    /\ frame = NoFrame

NextCounter == FrameCounter

\* a counter-attacking enemy walking past towers
SpecCounter == InitCounter /\ [][NextCounter]_vars

\* the distances, in pixels, at which a tower fires at an enemy in its range
ShotDistances == {20, 50}

\* the fire events of one frame: none or one, at a living enemy of the list
Volleys(es) ==
    {<< >>} \cup
    {<<[kind |-> kind, targetId |-> es[k].id, distance |-> d]>> :
        kind \in {"projectile", "gatling"},
        k \in {j \in 1..Len(es) : es[j].alive},
        d \in ShotDistances}

\* Game.cleanupDeadEntities on the projectiles
cleanupDeadProjectiles(list) == SelectSeq(list, LAMBDA p : p.alive)

\* Game.gameLoop on the attack instances aimed at enemies: the fire events of
\* updateTowers, updateProjectiles, updateGatlingBullets and
\* cleanupDeadEntities.  The frame's deltaTime and its fire events are the
\* frame's inputs; up to MaxShots instances are followed.
FrameShots ==
    /\ gameState = "playing"
    /\ \E deltaTime \in DeltaTimes, fired \in Volleys(shotEnemies) :
        LET g0 == [enemies |-> shotEnemies, projectiles |-> projectiles,
                   gatlingBullets |-> gatlingBullets, gold |-> gold,
                   entityIdCounter |-> entityIdCounter, log |-> << >>]
            g1 == Fire(g0, fired)
        IN \E g2 \in {updateProjectiles(g1, deltaTime, 1)} :
           \E g3 \in {updateGatlingBullets(g2, deltaTime, Len(g2.gatlingBullets))} :
           /\ entityIdCounter + Len(fired) <= MaxShots
           /\ shotEnemies' = cleanupDeadEnemies(g3.enemies)
           /\ projectiles' = cleanupDeadProjectiles(g3.projectiles)
           /\ gatlingBullets' = g3.gatlingBullets
           /\ gold' = g3.gold
           /\ entityIdCounter' = g3.entityIdCounter
           /\ shotLog' = g3.log
           /\ UNCHANGED <<now, waves, waveVars, gameState, coreHealth, enemies,
                          timers, ticking, waveEndTime, towerVars, out, dmgVars, clockVars, pathVars,
                          burstVars, frameVars, auraVars>>

\* MaxTargets wounded zombies in the range of a prototype tower and a gatling
\* tower
InitShots ==
    /\ ClockIdle
    /\ PathIdle
    /\ PlayingInit
    /\ DmgIdle
    /\ BurstIdle
    /\ FrameIdle
    /\ AuraIdle
    /\ \E health \in [TargetIds -> {5, 17}] :
         shotEnemies = [k \in TargetIds |-> ShotEnemy(k, health[k])]
    /\ projectiles = << >>
    /\ gatlingBullets = << >>
    /\ shotLog = << >>

NextShots == FrameShots

\* projectiles and gatling bullets flying at wounded zombies
SpecShots == InitShots /\ [][NextShots]_vars

\* what the actions on the tower objects leave alone
auraRest == <<now, waves, waveVars, gameState, coreHealth, enemies, timers,
              ticking, waveEndTime, towers, hasTower, isDragging,
              draggingTowerType, draggingTowerCost, currentTower,
              removedTowers, auraReleases, out, dmgVars, clockVars, pathVars, burstVars, frameVars,
              shotVars>>

\* a drag of the unit dropped on tile (x, y): DeploymentBar.startDrag, endDrag
\* and Game.handleDragDeploy, on the tower objects; up to MaxPlaced towers are
\* placed
Deploy(x, y, unit) ==
    /\ gameState \in {"playing", "idle"}
    /\ entityIdCounter < MaxPlaced
    /\ gold >= unit.cost
    /\ canPlaceObj(towerObjs, x, y, unit.type)
    /\ LET p == placeTowerObj(x, y, unit.type) IN
        /\ towerObjs' = p.towers
        /\ guardAuraMap' = p.guardAuraMap
        /\ entityIdCounter' = p.entityIdCounter
    /\ gold' = gold - unit.cost
    /\ UNCHANGED <<auraRest, towerHit>>

\* TowerInfoPanel.handleRemove on the tower at position i: Game.removeTower
Undeploy(i) ==
    /\ i \in 1..Len(towerObjs)
    /\ LET r == ReleaseObj(towerObjs, guardAuraMap, i) IN
        /\ towerObjs' = r.towers
        /\ guardAuraMap' = r.guardAuraMap
    /\ UNCHANGED <<auraRest, gold, entityIdCounter, towerHit>>

\* Game.gameLoop on the tower objects: a bubble pearl or an AK47 bullet lands
\* in updateBubblePearls or updateAK47Bullets, then cleanupDeadEntities.  The
\* instance that lands and the tower it was aimed at are the frame's inputs;
\* up to MaxHits damage resolutions are followed.
FrameHit ==
    /\ gameState = "playing"
    /\ towerHit.n < MaxHits
    /\ \E baseDamage \in {pearlDamage, ak47BulletDamage},
          targetId \in 0..(entityIdCounter - 1) :
        LET r == TowerHitBy(baseDamage, targetId)
            c == cleanupDeadTowers([towers |-> r.towers,
                                    guardAuraMap |-> guardAuraMap],
                                   Len(r.towers))
        IN /\ towerObjs' = c.towers
           /\ guardAuraMap' = c.guardAuraMap
           /\ towerHit' = r.hit
    /\ UNCHANGED <<auraRest, gold, entityIdCounter>>

\* the units of the aura specification: the gatling tower, which needs a
\* platform, and the guard tower
AuraUnits == {u \in DeployableUnits : u.type \in {"gatling", "guard"}}

InitAura ==
    /\ ClockIdle
    /\ PathIdle
    /\ PlayingInitOn(ExcerptKeys)
    /\ DmgIdle
    /\ BurstIdle
    /\ FrameIdle
    /\ ShotIdle
    /\ AuraIdle

\* the drops are explored on the column of the excerpt that has two platform
\* tiles above a ground tile
NextAura ==
    \/ \E y \in 0..(Len(Layout) - 1), unit \in AuraUnits : Deploy(2, y, unit)
    \/ \E i \in 1..Len(towerObjs) : Undeploy(i)
    \/ FrameHit

\* guard towers placed next to towers and removed, while the shots of enemies
\* land on the towers
SpecAura == InitAura /\ [][NextAura]_vars

\* a call of takeDamage on a living enemy or tower, with a damage that
\* calculateDamage returns
EnemyTakeDamage ==
    /\ \E k \in 1..Len(shotEnemies), damage \in 1..MaxBaseDamage :
        /\ shotEnemies[k].alive
        /\ shotEnemies' = [shotEnemies EXCEPT ![k] = takeDamage(@, damage)]
    /\ out' = Output("Enemy.takeDamage", FALSE, {})
    /\ UNCHANGED <<gameVars, dmgVars, clockVars, pathVars, burstVars, frameVars, projectiles,
                   gatlingBullets, shotLog, auraVars>>

TowerTakeDamage ==
    /\ \E i \in 1..Len(towerObjs), damage \in 1..MaxBaseDamage :
        /\ towerObjs[i].alive
        /\ towerObjs' = [towerObjs EXCEPT ![i] = Tower_takeDamage(@, damage)]
    /\ out' = Output("Tower.takeDamage", FALSE, {})
    /\ UNCHANGED <<gameVars, dmgVars, clockVars, pathVars, burstVars, frameVars, shotVars, towerHit>>

\* the call of Enemy.kill that updateEnemies makes on an enemy at the end of
\* its path
EnemyKill ==
    /\ \E k \in 1..Len(shotEnemies) :
        /\ shotEnemies[k].alive
        /\ shotEnemies' = [shotEnemies EXCEPT ![k] = ReachedEndKill(@)]
    /\ out' = Output("Enemy.kill", FALSE, {})
    /\ UNCHANGED <<gameVars, dmgVars, clockVars, pathVars, burstVars, frameVars, projectiles,
                   gatlingBullets, shotLog, auraVars>>

\* one zombie or one gatling tower, as constructed
InitLife ==
    /\ ClockIdle
    /\ PathIdle
    /\ PlayingInit
    /\ DmgIdle
    /\ BurstIdle
    /\ FrameIdle
    /\ projectiles = << >>
    /\ gatlingBullets = << >>
    /\ shotLog = << >>
    /\ towerHit = NoHit
    /\ \/ /\ shotEnemies = <<ShotEnemy(1, ZombieStats.health)>>
          /\ towerObjs = << >>
       \/ /\ shotEnemies = << >>
          /\ towerObjs = <<NewTower(0, "gatling", 2, 0)>>

NextLife == EnemyTakeDamage \/ TowerTakeDamage \/ EnemyKill

\* the health and the death flag of one entity under takeDamage and kill
SpecLife == InitLife /\ [][NextLife]_vars

\* Game.startGame, with the clock it reads: this.lastTime = performance.now()
StartClock ==
    /\ Game_startGame
    /\ lastTime' = now
    /\ UNCHANGED <<clock, phases, pathVars, dmgVars, burstVars, frameVars, shotVars,
                   auraVars>>

\* Game.gameLoop, with the time it hands to each of its phases: deltaTime
\* since the last frame and its clamp for the updates of towers, enemies and
\* attack instances; WaveSystem.update takes no argument and reads
\* Date.now() - waveStartTime, which was 0 when startNextWave started the wave
TickClock ==
    /\ Game_gameLoop
    /\ LET deltaTime == now - lastTime
           clampedDelta == Min(deltaTime, ClampMs)
           elapsed == now - waveStartTime
           before == IF clock.wave = currentWaveIndex THEN clock.elapsed ELSE 0
       IN /\ lastTime' = now
          /\ clock' = [ran |-> TRUE,
                       wave |-> IF waveInProgress THEN currentWaveIndex
                                ELSE clock.wave,
                       elapsed |-> IF waveInProgress THEN elapsed
                                   ELSE clock.elapsed,
                       towers |-> clampedDelta,
                       enemies |-> clampedDelta,
                       instances |-> clampedDelta,
                       scheduler |-> IF waveInProgress THEN elapsed - before
                                     ELSE 0]
    /\ UNCHANGED <<phases, pathVars, dmgVars, burstVars, frameVars, shotVars,
                   auraVars>>

\* real time passes between two frames, in steps of half the clamp
PassTime == AdvanceTo(ClampMs \div 2, MaxClockSteps)

InitClock == GameInit({<<createDefaultWaves[1]>>}) /\ PureIdle

NextClock == StartClock \/ PassTime \/ TickClock

\* the first wave with the clock of the frames
SpecClock == InitClock /\ [][NextClock]_vars

NextReset == FrameShots \/ Reset \/ StartGame

\* attack instances in flight when the game is reset and started again
SpecReset == InitShots /\ [][NextReset]_vars

\* the calls of Game.gameLoop after its state test, in the order of the source
gameLoopCalls ==
    << "waveSystem.update", "updateTowers", "updateEnemies", "updateProjectiles",
       "updateFlameParticles", "updateDamagePopups", "updateLaserBeams",
       "updateBubblePearls", "updateAK47Bullets", "updateGatlingBullets",
       "updateMortarProjectiles", "cleanupDeadEntities",
       "updateExplosionEffects", "updateDeathEffects", "checkWaveComplete",
       "endGame" >>

\* a faulty order: the dead are cleaned up before the gatling bullets are
\* updated
callAtReapEarly(i) ==
    CASE gameLoopCalls[i] = "updateGatlingBullets" -> "cleanupDeadEntities"
      [] gameLoopCalls[i] = "cleanupDeadEntities" -> "updateGatlingBullets"
      [] OTHER -> gameLoopCalls[i]

\* the i-th call of a frame
callAt(i) == gameLoopCalls[i]

\* the spawnEnemy calls of one WaveSystem.update: n zombies join the list,
\* each taking its id from entityIdCounter
RECURSIVE spawnZombies(_, _)
spawnZombies(g, n) ==
    IF n = 0 THEN g
    ELSE spawnZombies(
             [g EXCEPT !.enemies = Append(@, ShotEnemy(g.entityIdCounter,
                                                       ZombieStats.health)),
                       !.spawned = @ \cup {g.entityIdCounter},
                       !.entityIdCounter = @ + 1], n - 1)

\* WaveSystem.update at the instant t
WaveSystem_update(g, t) ==
    IF ~g.waveInProgress THEN g
    ELSE LET wave == WaveAt(currentWaveIndex)
             count1 == SpawnLoop(wave, g.spawnedCount, t - waveStartTime)
             h == spawnZombies(g, count1 - g.spawnedCount)
         IN [h EXCEPT !.spawnedCount = count1,
                      !.allEnemiesSpawned = IF count1 >= Len(wave.enemies)
                                            THEN TRUE ELSE @]

\* Game.updateTowers: the tower whose turn it is fires at the living enemy at
\* position fire.k of the list, if there is one
updateTowersOn(g, fire) ==
    IF fire.k \in 1..Len(g.enemies) /\ g.enemies[fire.k].alive
    THEN [Fire(g, <<[kind |-> fire.kind, targetId |-> g.enemies[fire.k].id,
                     distance |-> fire.distance]>>)
             EXCEPT !.fired = [id |-> g.entityIdCounter, kind |-> fire.kind,
                               distance |-> fire.distance]]
    ELSE g

\* Game.updateEnemies from position k of the list on: the living enemies at
\* the positions of reached enter the blue gate
RECURSIVE updateEnemiesOn(_, _, _)
updateEnemiesOn(g, reached, k) ==
    IF k > Len(g.enemies) THEN g
    ELSE updateEnemiesOn(
             IF k \in reached /\ g.enemies[k].alive
             THEN [g EXCEPT !.coreHealth = @ - 1,
                            !.enemies[k] = ReachedEndKill(@)]
             ELSE g, reached, k + 1)

\* Game.checkWaveComplete and WaveSystem.markWaveComplete at the instant t
checkWaveCompleteOn(g, t) ==
    IF checkWaveComplete(g.waveInProgress, g.allEnemiesSpawned,
                         Cardinality({k \in 1..Len(g.enemies) : g.enemies[k].alive}))
    THEN [g EXCEPT !.waveInProgress = FALSE,
                   !.waveEndTime = t,
                   !.cb = @ \cup {"onWaveEnd"},
                   !.timers = IF ~isAllWavesComplete(currentWaveIndex, FALSE)
                              THEN Append(@, t + GraceDelay) ELSE @]
    ELSE g

\* one call of the frame on the game g, with the frame's inputs
gameLoopCall(g, call, in) ==
    LET h == CASE call = "waveSystem.update" -> WaveSystem_update(g, in.now)
               [] call = "updateTowers" -> updateTowersOn(g, in.fire)
               [] call = "updateEnemies" -> updateEnemiesOn(g, in.reached, 1)
               [] call = "updateProjectiles" ->
                      updateProjectiles(g, in.deltaTime, 1)
               [] call = "updateGatlingBullets" ->
                      updateGatlingBullets(g, in.deltaTime, Len(g.gatlingBullets))
               [] call = "cleanupDeadEntities" ->
                      [g EXCEPT !.enemies = cleanupDeadEnemies(@),
                                !.projectiles = cleanupDeadProjectiles(@)]
               [] call = "checkWaveComplete" -> checkWaveCompleteOn(g, in.now)
               [] call = "endGame" ->
                      IF Defeat(g.coreHealth)
                      THEN [g EXCEPT !.gameState = "defeat", !.ticking = FALSE]
                      ELSE g
               [] OTHER -> g
    IN [h EXCEPT !.calls = Append(@, call)]

\* the calls of a frame from the i-th on
RECURSIVE gameLoopFrom(_, _, _)
gameLoopFrom(g, i, in) ==
    IF i > Len(gameLoopCalls) THEN g
    ELSE gameLoopFrom(gameLoopCall(g, callAt(i), in), i + 1, in)

\* the fire events a frame may be given: none, or a shot from 20 pixels
FireInputs ==
    {[kind |-> "none", k |-> 0, distance |-> 0]} \cup
    [kind : {"projectile", "gatling"}, k : TargetIds,
     distance : {d \in ShotDistances : \A c \in ShotDistances : d <= c}]

\* the enemies that may enter the blue gate in one frame: none or one
ReachedInputs == {{}} \cup {{k} : k \in TargetIds}

\* the ids taken before the first frame: the zombie's and those of the shots
\* that wounded it
FirstPhaseId == 1 + MaxShots

\* Game.gameLoop as the sequence of its calls, on the enemies aimed at by
\* projectiles and gatling bullets
FramePhases ==
    /\ ticking
    /\ gameState = "playing"
    /\ \E deltaTime \in DeltaTimes, fire \in FireInputs,
          reached \in ReachedInputs :
        \E g \in {gameLoopFrom(
                     [enemies |-> shotEnemies, projectiles |-> projectiles,
                      gatlingBullets |-> gatlingBullets, gold |-> gold,
                      entityIdCounter |-> entityIdCounter, log |-> << >>,
                      spawnedCount |-> spawnedCount,
                      allEnemiesSpawned |-> allEnemiesSpawned,
                      waveInProgress |-> waveInProgress,
                      waveEndTime |-> waveEndTime, timers |-> timers,
                      coreHealth |-> coreHealth, gameState |-> gameState,
                      ticking |-> ticking, cb |-> {}, calls |-> << >>,
                      spawned |-> {}, fired |-> NoShot],
                     1, [now |-> now, deltaTime |-> deltaTime, fire |-> fire,
                         reached |-> reached])} :
           /\ g.entityIdCounter <= FirstPhaseId + MaxPhaseIds
           /\ shotEnemies' = g.enemies
           /\ projectiles' = g.projectiles
           /\ gatlingBullets' = g.gatlingBullets
           /\ gold' = g.gold
           /\ entityIdCounter' = g.entityIdCounter
           /\ shotLog' = g.log
           /\ spawnedCount' = g.spawnedCount
           /\ allEnemiesSpawned' = g.allEnemiesSpawned
           /\ waveInProgress' = g.waveInProgress
           /\ waveEndTime' = g.waveEndTime
           /\ timers' = g.timers
           /\ coreHealth' = g.coreHealth
           /\ gameState' = g.gameState
           /\ ticking' = g.ticking
           /\ out' = Output("gameLoop", FALSE,
                            g.cb \cup IF g.spawned # {} THEN {"onSpawnEnemy"}
                                      ELSE {})
           /\ phases' = [calls |-> g.calls, spawned |-> g.spawned,
                         fired |-> g.fired,
                         dead |-> {shotEnemies[k].id : k \in 1..Len(shotEnemies)}
                                  \ {g.enemies[k].id : k \in 1..Len(g.enemies)}]
    /\ UNCHANGED <<now, waves, currentWaveIndex, waveStartTime, enemies,
                   towerVars, dmgVars, burstVars, frameVars, auraVars, lastTime,
                   clock, pathVars>>

\* real time passes between two frames
PassPhaseTime == AdvanceTo(2 * MsPerStep, MaxPhaseSteps)

\* the first wave at the instant its first zombie is due: the zombie has
\* been spawned and wounded by the first shots of the towers
InitPhases ==
    /\ PlayingFrom(AuraKeys, createDefaultWaves[1].prepareTime, 1, FirstPhaseId)
    /\ DmgIdle
    /\ BurstIdle
    /\ FrameIdle
    /\ AuraIdle
    /\ ClockIdle
    /\ PathIdle
    /\ \E health \in {5, 17} : shotEnemies = <<ShotEnemy(0, health)>>
    /\ projectiles = << >>
    /\ gatlingBullets = << >>
    /\ shotLog = << >>

NextPhases == FramePhases \/ PassPhaseTime

\* the frames of the first wave, call by call
SpecPhases == InitPhases /\ [][NextPhases]_vars

(***************************************************************************)
(* PathFinding on small maps                                               *)
(***************************************************************************)
\* the tiles of a map of w x h tiles
GridTiles(w, h) == {Pos(x, y) : x \in 0..(w - 1), y \in 0..(h - 1)}

\* the layout of a map of w x h tiles: blue gates, a red gate, platforms on
\* the tiles of walls and ground elsewhere
GridLayout(w, h, walls, redGate, blueGates) ==
    [r \in 1..h |-> [c \in 1..w |->
        IF Pos(c - 1, r - 1) \in blueGates THEN "B"
        ELSE IF Pos(c - 1, r - 1) = redGate THEN "R"
        ELSE IF Pos(c - 1, r - 1) \in walls THEN "P"
        ELSE "G"]]

\* the sets of at most MaxWalls tiles
WallSets(tiles) == {S \in SUBSET tiles : Cardinality(S) <= MaxWalls}

\* PathFinding.findPath from the red gate to the blue gate
FindPath ==
    /\ out.op # "findPath"
    /\ pathResult' = findPath(routeMap, pathArgs.start, pathArgs.end)
    /\ out' = Output("findPath", FALSE, {})
    /\ UNCHANGED <<gameVars, pathArgs, dmgVars, burstVars, frameVars, shotVars,
                   auraVars, clockVars>>

\* a map of up to MaxGridW x MaxGridH tiles with up to MaxWalls platforms, a
\* red gate and a blue gate on any other two tiles, or on the same tile
InitPath ==
    /\ GameInit({<<createDefaultWaves[1]>>})
    /\ DmgIdle
    /\ BurstIdle
    /\ enemyObjs = << >>
    /\ frame = NoFrame
    /\ ShotIdle
    /\ AuraIdle
    /\ ClockIdle
    /\ pathResult = << >>
    /\ \E w \in 1..MaxGridW, h \in 1..MaxGridH :
       \E walls \in WallSets(GridTiles(w, h)) :
       \E start \in GridTiles(w, h) \ walls, end \in GridTiles(w, h) \ walls :
          /\ routeMap = GridLayout(w, h, walls, start, {end})
          /\ pathArgs = [start |-> start, end |-> end]

NextPath == FindPath

\* findPath between two gates of a small map
SpecPath == InitPath /\ [][NextPath]_vars

\* PathFinding.findPathToNearestBlueGate from the red gate
FindNearest ==
    /\ out.op # "findPathToNearestBlueGate"
    /\ pathResult' = findPathToNearestBlueGate(routeMap, pathArgs.start)
    /\ out' = Output("findPathToNearestBlueGate", FALSE, {})
    /\ UNCHANGED <<gameVars, pathArgs, dmgVars, burstVars, frameVars, shotVars,
                   auraVars, clockVars>>

\* a map of MaxGridW x MaxGridH tiles with up to MaxWalls platforms, a red
\* gate in its first column and two blue gates
InitGates ==
    /\ GameInit({<<createDefaultWaves[1]>>})
    /\ DmgIdle
    /\ BurstIdle
    /\ enemyObjs = << >>
    /\ frame = NoFrame
    /\ ShotIdle
    /\ AuraIdle
    /\ ClockIdle
    /\ pathResult = << >>
    /\ \E walls \in WallSets(GridTiles(MaxGridW, MaxGridH)) :
       \E start \in {p \in GridTiles(MaxGridW, MaxGridH) \ walls : p.x = 0} :
       \E g1 \in GridTiles(MaxGridW, MaxGridH) \ (walls \cup {start}),
          g2 \in GridTiles(MaxGridW, MaxGridH) \ (walls \cup {start}) :
          /\ g1 # g2
          /\ routeMap = GridLayout(MaxGridW, MaxGridH, walls, start, {g1, g2})
          /\ pathArgs = [start |-> start, end |-> g1]

NextGates == FindNearest

\* findPathToNearestBlueGate on a small map with two blue gates
SpecGates == InitGates /\ [][NextGates]_vars

\* a faulty setTowerOnTile: the tile under a tower becomes a platform
setTowerOnTileAsPlatform(tiles, x, y, flag) ==
    IF MAP_CHAR_TO_TYPE(tiles.layout[y + 1][x + 1]) \notin {"platform", "ground"}
    THEN tiles
    ELSE [layout |-> [tiles.layout EXCEPT ![y + 1][x + 1] = IF flag THEN "P" ELSE @],
          hasTower |-> [tiles.hasTower EXCEPT ![<<x, y>>] = flag]]

\* GameMap.setTowerOnTile on the tiles of a map, their types (layout) and
\* their occupancy (hasTower): only tile.hasTower is written
GameMap_setTowerOnTile(tiles, x, y, flag) ==
    IF MAP_CHAR_TO_TYPE(tiles.layout[y + 1][x + 1]) \notin {"platform", "ground"}
    THEN tiles
    ELSE [layout |-> tiles.layout,
          hasTower |-> [tiles.hasTower EXCEPT ![<<x, y>>] = flag]]

\* Game.placeTower of a guard tower on a tile of the map of the path search
\* that canPlaceGuardTower accepts; the aura of the tower, which no path
\* search reads, is left out
PlaceOnGrid ==
    /\ Len(towers) < MaxGridTowers
    /\ \E p \in GridTiles(Len(routeMap[1]), Len(routeMap)) :
          /\ MAP_CHAR_TO_TYPE(routeMap[p.y + 1][p.x + 1]) \in {"platform", "ground"}
          /\ ~hasTower[<<p.x, p.y>>]
          /\ \E tiles \in {GameMap_setTowerOnTile(
                              [layout |-> routeMap, hasTower |-> hasTower],
                              p.x, p.y, TRUE)} :
                /\ routeMap' = tiles.layout
                /\ hasTower' = tiles.hasTower
          /\ towers' = Append(towers, [id |-> entityIdCounter, type |-> "guard",
                                       x |-> p.x, y |-> p.y])
    /\ entityIdCounter' = entityIdCounter + 1
    /\ out' = Output("placeTower", TRUE, {})
    /\ UNCHANGED <<now, waves, waveVars, gameState, coreHealth, gold, enemies,
                   timers, ticking, waveEndTime, guardAuraMap, isDragging,
                   draggingTowerType, draggingTowerCost, currentTower,
                   removedTowers, auraReleases, dmgVars, burstVars, enemyObjs,
                   frame, shotVars, auraVars, clockVars, pathVars>>

\* a map of MaxGridW x MaxGridH tiles with up to MaxWalls platforms, the red
\* gate in its first corner, a blue gate in its last column and no tower
InitWalk ==
    /\ GameInitOn({<<createDefaultWaves[1]>>},
                  (0..(MaxGridW - 1)) \X (0..(MaxGridH - 1)))
    /\ DmgIdle
    /\ BurstIdle
    /\ enemyObjs = << >>
    /\ frame = NoFrame
    /\ ShotIdle
    /\ AuraIdle
    /\ ClockIdle
    /\ pathResult = << >>
    /\ \E end \in {p \in GridTiles(MaxGridW, MaxGridH) : p.x = MaxGridW - 1} :
       \E walls \in WallSets(GridTiles(MaxGridW, MaxGridH) \ {Pos(0, 0), end}) :
          /\ routeMap = GridLayout(MaxGridW, MaxGridH, walls, Pos(0, 0), {end})
          /\ pathArgs = [start |-> Pos(0, 0), end |-> end]

NextWalk == FindNearest \/ PlaceOnGrid

\* path searches before and after the placement of towers
SpecWalk == InitWalk /\ [][NextWalk]_vars

(***************************************************************************)
(* Area detonations.  The enemies stand on one line with the detonation,   *)
(* so that the distance Math.sqrt(dx * dx + dy * dy) is |dx|.              *)
(***************************************************************************)
\* DEFAULT_EXPLOSION_LAYERS, the layers of an anti-air detonation;
\* damagePercent in hundredths
DEFAULT_EXPLOSION_LAYERS ==
    <<[radius |-> 32, damagePercent |-> 100],
      [radius |-> 64, damagePercent |-> 60],
      [radius |-> 96, damagePercent |-> 30]>>

\* MORTAR_EXPLOSION_LAYERS, the layers RainMortarTower gives its shells
MORTAR_EXPLOSION_LAYERS ==
    <<[radius |-> 38, damagePercent |-> 100],
      [radius |-> 77, damagePercent |-> 60],
      [radius |-> 115, damagePercent |-> 20]>>

\* ANTIAIRCRAFT_STATS.attack
antiaircraftAttack == 50
\* RAIN_MORTAR_STATS.attack
rainMortarAttack == 50

\* the explosion radius of a mortar shell, in tenths of a tile; the class
\* that answers getExplosionRadius() is not among the sources, 18 is the
\* radius RainMortarTower documents
ExplosionRadii == {10, 18}

\* a zombie standing at x pixels on the line
BlastEnemy(id, health, x) ==
    [id |-> id, alive |-> TRUE, health |-> health, x |-> x,
     defense |-> ZombieStats.defense, magicResist |-> ZombieStats.magicResist]

\* the inner loop of handleExplosion: the percent of the first layer, from
\* layer i on, whose radius holds the distance, 0 when none does
RECURSIVE damagePercentOf(_, _, _)
damagePercentOf(layers, distance, i) ==
    IF i > Len(layers) THEN 0
    ELSE IF distance <= layers[i].radius THEN layers[i].damagePercent
    ELSE damagePercentOf(layers, distance, i + 1)

\* the hit of a detonation on the enemy at position i: enemy.takeDamage, the
\* kill reward, and the damage noted for the detonation
BlastHit(g, i, distance, finalDamage) ==
    LET e1 == takeDamage(g.enemies[i], finalDamage)
    IN [g EXCEPT !.enemies[i] = e1,
                 !.gold = IF ~e1.alive THEN @ + KillReward ELSE @,
                 !.log = Append(@, [id |-> e1.id, distance |-> distance,
                                    damage |-> finalDamage])]

\* a living enemy the detonation leaves alone
BlastMiss(g, i, distance) ==
    [g EXCEPT !.log = Append(@, [id |-> g.enemies[i].id, distance |-> distance,
                                 damage |-> 0])]

\* a faulty test: a detonation passes over no enemy
BlastSkipsNone(enemy) == FALSE

\* the first test of both detonation loops: if (!enemy.isAlive()) continue
BlastSkips(enemy) == ~enemy.alive

\* Game.handleExplosion from the enemy at position i on
RECURSIVE handleExplosion(_, _, _)
handleExplosion(g, data, i) ==
    IF i > Len(g.enemies) THEN g
    ELSE LET enemy == g.enemies[i]
             distance == Abs(enemy.x - data.position)
             damagePercent == damagePercentOf(data.layers, distance, 1)
             rawDamage == (data.baseDamage * damagePercent * DmgDen) \div 100
             finalDamage == calculateDamage(rawDamage, "physical",
                                            enemy.defense, enemy.magicResist)
         IN IF BlastSkips(enemy) THEN handleExplosion(g, data, i + 1)
            ELSE IF damagePercent > 0
            THEN handleExplosion(BlastHit(g, i, distance, finalDamage), data, i + 1)
            ELSE handleExplosion(BlastMiss(g, i, distance), data, i + 1)

\* Game.handleMortarExplosion from the enemy at position i on.  With the
\* radius r in tenths of a tile, explosionRadiusPx is r * 6.4 and
\* 1 - (distance / explosionRadiusPx) * 0.8 is (8 r - distance) / (8 r).
RECURSIVE handleMortarExplosion(_, _, _)
handleMortarExplosion(g, projectile, i) ==
    IF i > Len(g.enemies) THEN g
    ELSE LET enemy == g.enemies[i]
             distance == Abs(enemy.x - projectile.position)
             r == projectile.explosionRadius
             rawDamage == (projectile.baseDamage * DmgDen * (8 * r - distance))
                              \div (8 * r)
             finalDamage == calculateDamage(rawDamage, "physical",
                                            enemy.defense, enemy.magicResist)
         IN IF BlastSkips(enemy) THEN handleMortarExplosion(g, projectile, i + 1)
            ELSE IF distance * 10 <= r * 64
            THEN handleMortarExplosion(BlastHit(g, i, distance, finalDamage),
                                       projectile, i + 1)
            ELSE handleMortarExplosion(BlastMiss(g, i, distance), projectile, i + 1)

\* the detonations: an anti-air fire event or a mortar shell that lands, at
\* one of two places on the line
Detonations ==
    {[kind |-> "antiaircraft", position |-> p, baseDamage |-> antiaircraftAttack,
      layers |-> DEFAULT_EXPLOSION_LAYERS, explosionRadius |-> 0] : p \in {0, 30}}
    \cup
    {[kind |-> "rain_mortar", position |-> p, baseDamage |-> rainMortarAttack,
      layers |-> MORTAR_EXPLOSION_LAYERS, explosionRadius |-> r] :
        p \in {0, 30}, r \in ExplosionRadii}

\* one detonation: handleExplosion or handleMortarExplosion; shotLog keeps,
\* for each detonation, its data and the damage of each living enemy
Detonate ==
    /\ gameState = "playing"
    /\ Len(shotLog) < MaxHits
    /\ \E data \in Detonations :
        LET g0 == [enemies |-> shotEnemies, gold |-> gold, log |-> << >>]
        IN \E g1 \in {IF data.kind = "antiaircraft"
                       THEN handleExplosion(g0, data, 1)
                       ELSE handleMortarExplosion(g0, data, 1)} :
           /\ shotEnemies' = g1.enemies
           /\ gold' = g1.gold
           /\ shotLog' = Append(shotLog, [data |-> data, hits |-> g1.log])
    /\ UNCHANGED <<now, waves, waveVars, gameState, coreHealth, enemies,
                   timers, ticking, entityIdCounter, waveEndTime, towerVars,
                   out, dmgVars, clockVars, pathVars, burstVars, frameVars,
                   auraVars, projectiles, gatlingBullets>>

\* MaxTargets zombies, fresh or wounded, on the line
InitBlast ==
    /\ ClockIdle
    /\ PathIdle
    /\ PlayingInit
    /\ DmgIdle
    /\ BurstIdle
    /\ FrameIdle
    /\ AuraIdle
    /\ \E health \in [TargetIds -> {17, 50}], x \in [TargetIds -> {0, 20, 70, 100}] :
         shotEnemies = [k \in TargetIds |-> BlastEnemy(k, health[k], x[k])]
    /\ projectiles = << >>
    /\ gatlingBullets = << >>
    /\ shotLog = << >>

NextBlast == Detonate

\* detonations among zombies
SpecBlast == InitBlast /\ [][NextBlast]_vars

\* Game.updateTowers on one charge-then-burst tower, as UpdateTowers; the
\* tick keeps the living enemies in the range pattern that the frame passed
\* to the tower, and the targets of a burst are not followed
AimTowers ==
    \E deltaTime \in DeltaTimes, inRange \in SUBSET TargetIds :
      \E pick \in IF inRange = {} THEN {0} ELSE inRange :
        LET r == TowerUpdate(burstTower, deltaTime, inRange, pick)
        IN /\ (burstTower.state = "idle" /\ inRange = {})
                  => burstTower.frameTimer + deltaTime <= MaxIdleMs
           /\ burstTower' = r.tower
           /\ tick' = [deltaTime |-> deltaTime, hasEnemy |-> inRange # {},
                       shouldFire |-> r.shouldFire, targetId |-> r.targetId,
                       inRange |-> inRange]
           /\ UNCHANGED <<gameVars, out, dmgVars, clockVars, pathVars, frameVars,
                          shotVars, auraVars, burstLog>>

NextAim == AimTowers

\* one anti-air, laser or rain-mortar tower and the enemies in its range
SpecAim == InitBurst /\ [][NextAim]_vars

\* the onSpawnEnemy callback of setupWaveCallbacks, called by
\* WaveSystem.update with the type and the gateIndex of a spawn event:
\* (type, _gateIndex) => this.spawnEnemy(type).  The frame keeps the event.
OnSpawnEnemy ==
    /\ gameState = "playing"
    /\ entityIdCounter < MaxSpawns
    /\ \E type \in EnemyTypes, gateIndex \in 0..(Len(getRedGates(routeMap)) - 1) :
        \E g \in {spawnEnemy([enemies |-> enemyObjs,
                               entityIdCounter |-> entityIdCounter],
                              routeMap, type)} :
           /\ enemyObjs' = g.enemies
           /\ entityIdCounter' = g.entityIdCounter
           /\ frame' = [types |-> <<type>>, inSight |-> {}, reached |-> {},
                        gateIndex |-> gateIndex]
    /\ UNCHANGED <<now, waves, waveVars, gameState, coreHealth, gold, enemies,
                   timers, ticking, waveEndTime, towerVars, out, routeMap,
                   dmgVars, clockVars, pathVars, burstVars, shotVars, auraVars>>

\* a map of MaxGridW x MaxGridH tiles with a red gate on each of the first
\* two tiles of its first column, a blue gate in its last column and up to
\* MaxWalls platforms
InitSpawn ==
    /\ ClockIdle
    /\ PathIdle
    /\ PlayingInit
    /\ DmgIdle
    /\ BurstIdle
    /\ ShotIdle
    /\ AuraIdle
    /\ \E end \in {p \in GridTiles(MaxGridW, MaxGridH) : p.x = MaxGridW - 1} :
       \E walls \in WallSets(GridTiles(MaxGridW, MaxGridH)
                                \ {Pos(0, 0), Pos(0, 1), end}) :
          routeMap = [GridLayout(MaxGridW, MaxGridH, walls, Pos(0, 0), {end})
                         EXCEPT ![2][1] = "R"]
    /\ enemyObjs = << >>
    /\ frame = NoFrame

NextSpawn == OnSpawnEnemy

\* spawn events for either red gate of a map with two
SpecSpawn == InitSpawn /\ [][NextSpawn]_vars

\* the detonations of one frame, one after the other
RECURSIVE DetonateAll(_, _)
DetonateAll(g, dets) ==
    IF dets = << >> THEN g
    ELSE DetonateAll(IF Head(dets).kind = "antiaircraft"
                     THEN handleExplosion(g, Head(dets), 1)
                     ELSE handleMortarExplosion(g, Head(dets), 1),
                     Tail(dets))

\* the detonations a frame may be given, at the head of the line: none, one
\* or two anti-air fire events (run inside updateTowers), or one and a
\* mortar shell that lands (run inside updateMortarProjectiles)
FrameDetonations ==
    LET air == CHOOSE d \in Detonations :
                   d.kind = "antiaircraft" /\ d.position = 0
        shell == CHOOSE d \in Detonations :
                     /\ d.kind = "rain_mortar" /\ d.position = 0
                     /\ \A r \in ExplosionRadii : d.explosionRadius <= r
    IN {<< >>, <<air>>, <<air, air>>, <<air, shell>>}

\* Game.gameLoop on the enemies and what kills them: the detonations and
\* fire events of updateTowers, updateEnemies, updateProjectiles,
\* updateGatlingBullets, updateMortarProjectiles and cleanupDeadEntities.
\* The frame keeps who was brought to zero health and who entered the gate,
\* read from the enemy list before it is cleaned.
FrameReward ==
    /\ gameState = "playing"
    /\ \E deltaTime \in DeltaTimes, fire \in FireInputs, dets \in FrameDetonations,
          reached \in ReachedInputs :
        LET g0 == [enemies |-> shotEnemies, projectiles |-> projectiles,
                   gatlingBullets |-> gatlingBullets, gold |-> gold,
                   entityIdCounter |-> entityIdCounter, log |-> << >>,
                   coreHealth |-> coreHealth, fired |-> NoShot]
            air == SelectSeq(dets, LAMBDA d : d.kind = "antiaircraft")
            shells == SelectSeq(dets, LAMBDA d : d.kind # "antiaircraft")
        IN \E g1 \in {updateTowersOn(DetonateAll(g0, air), fire)} :
           \E g2 \in {updateEnemiesOn(g1, reached, 1)} :
           \E g3 \in {updateProjectiles(g2, deltaTime, 1)} :
           \E g4 \in {updateGatlingBullets(g3, deltaTime, Len(g3.gatlingBullets))} :
           \E g5 \in {DetonateAll(g4, shells)} :
           /\ g5.entityIdCounter <= MaxShots
           /\ shotEnemies' = cleanupDeadEnemies(g5.enemies)
           /\ projectiles' = cleanupDeadProjectiles(g5.projectiles)
           /\ gatlingBullets' = g5.gatlingBullets
           /\ gold' = g5.gold
           /\ entityIdCounter' = g5.entityIdCounter
           /\ coreHealth' = g5.coreHealth
           /\ gameState' = IF Defeat(g5.coreHealth) THEN "defeat" ELSE gameState
           /\ frame' = [types |-> << >>, inSight |-> {},
                        reached |-> {g5.enemies[k].id :
                                        k \in {j \in 1..Len(g5.enemies) :
                                                  /\ ~g5.enemies[j].alive
                                                  /\ g5.enemies[j].health > 0}},
                        slain |-> {g5.enemies[k].id :
                                      k \in {j \in 1..Len(g5.enemies) :
                                                g5.enemies[j].health = 0}},
                        blasts |-> Len(dets)]
    /\ UNCHANGED <<now, waves, waveVars, enemies, timers, ticking, waveEndTime,
                   towerVars, out, dmgVars, clockVars, pathVars, burstVars,
                   routeMap, enemyObjs, auraVars, shotLog>>

\* two zombies, fresh or wounded, 20 pixels from the head of the line
InitReward ==
    /\ ClockIdle
    /\ PathIdle
    /\ PlayingInit
    /\ DmgIdle
    /\ BurstIdle
    /\ routeMap = << >>
    /\ enemyObjs = << >>
    /\ frame = NoFrame
    /\ AuraIdle
    /\ \E health \in [{1, 2} -> {17, 50}] :
         shotEnemies = <<BlastEnemy(1, health[1], 20), BlastEnemy(2, health[2], 20)>>
    /\ projectiles = << >>
    /\ gatlingBullets = << >>
    /\ shotLog = << >>

NextReward == FrameReward

\* frames in which shots and detonations reach zombies on their way to the
\* gate
SpecReward == InitReward /\ [][NextReward]_vars

\* Game.updateEnemies in a frame of a counter-attacking enemy whose whole
\* route lies in the range of the towers; a tower that lives may be destroyed
\* before any frame.  The frame keeps the towers that live, the number of
\* frames the enemy's burst has lasted (ticks) and whether the tower it
\* aims at was missing from the living ones in a frame of the burst (lost).
BurstFrame ==
    /\ gameState = "playing"
    /\ Len(enemyObjs) = 1
    /\ \E deltaTime \in DeltaTimes, living \in SUBSET frame.living,
          near \in {[k \in 1..Len(enemyObjs) |-> 1..MaxFrameTowers]} :
        LET g0 == [enemies |-> enemyObjs, entityIdCounter |-> entityIdCounter,
                   coreHealth |-> coreHealth, reached |-> {}]
            a == tryAttack(enemyObjs[1], TowerInfos(living, 1), near[1])
            attacking == a.state = "attacking"
            ongoing == enemyObjs[1].state = "attacking"
        IN \E g2 \in {updateEnemies(g0, deltaTime, TowerInfos(living, 1), near, 1)} :
               /\ enemyObjs' = cleanupDeadEnemies(g2.enemies)
               /\ entityIdCounter' = g2.entityIdCounter
               /\ coreHealth' = g2.coreHealth
               /\ gameState' = IF Defeat(g2.coreHealth) THEN "defeat" ELSE gameState
               /\ frame' = [types |-> << >>,
                            inSight |-> IF living \cap near[1] # {}
                                        THEN {enemyObjs[1].id} ELSE {},
                            reached |-> g2.reached,
                            living |-> living,
                            ticks |-> IF ~attacking THEN 0
                                      ELSE IF ongoing THEN frame.ticks + 1 ELSE 1,
                            lost |-> /\ attacking
                                     /\ \/ ongoing /\ frame.lost
                                        \/ a.currentTargetId \notin living]
    /\ UNCHANGED <<now, waves, waveVars, gold, enemies, timers, ticking,
                   waveEndTime, towerVars, out, routeMap, dmgVars, clockVars,
                   pathVars, burstVars, shotVars, auraVars>>

InitReturn ==
    /\ ClockIdle
    /\ PathIdle
    /\ PlayingInit
    /\ DmgIdle
    /\ BurstIdle
    /\ ShotIdle
    /\ AuraIdle
    /\ routeMap = << <<"R", "B">> >>
    /\ \E type \in CounterAttackers :
         enemyObjs = <<NewEnemy(0, type, tileToPixel(0, 0),
                                findPathToNearestBlueGate(routeMap, Pos(0, 0)))>>
    /\ frame = [types |-> << >>, inSight |-> {}, reached |-> {},
                living |-> 1..MaxFrameTowers, ticks |-> 0, lost |-> FALSE]

NextReturn == BurstFrame

\* the bursts of a counter-attacking enemy, frame by frame
SpecReturn == InitReturn /\ [][NextReturn]_vars

(***************************************************************************)
(* Properties                                                              *)
(***************************************************************************)
\* the last loaded wave has released every event, the field is empty and the
\* core still stands
LastWaveCleared ==
    /\ gameState = "playing"
    /\ currentWaveIndex = Len(waves) - 1
    /\ spawnedCount = Len(WaveAt(currentWaveIndex).enemies)
    /\ allEnemiesSpawned
    /\ AliveEnemies(enemies) = 0
    /\ coreHealth > 0

\* C1: once the last configured wave has released all its spawn events and
\* every enemy is cleared with core health above zero, all-waves-complete is
\* signalled and the game enters VICTORY; only a player action (the start
\* button, a reset) excuses a run from it.
C1_VictoryAfterLastWave ==
    LastWaveCleared ~>
        (gameState = "victory" \/ out.op \in {"startGame", "reset"})

\* C2: the aura counter of every tile equals the number of guard towers in
\* the tower collection whose affected tiles contain it, after any sequence
\* of placements, removals, reaped deaths and resets.
C2_AuraLedgerMatchesTowers ==
    \A k \in AuraKeys : guardAuraMap[k] = Cardinality(GuardsCovering(towers, k))

\* C3: onWaveEnd fires only in a state where every spawn event of the wave
\* has been released and no enemy is alive.
C3_WaveEndOnlyWhenCleared ==
    "onWaveEnd" \in out.cb =>
        /\ currentWaveIndex >= 0
        /\ spawnedCount = Len(WaveAt(currentWaveIndex).enemies)
        /\ AliveEnemies(enemies) = 0

\* a frame has just marked the first wave complete
C3_WaveEnded ==
    /\ "onWaveEnd" \in out.cb
    /\ currentWaveIndex = 0
    /\ ~waveInProgress

\* C4: startNextWave called while a wave is in progress returns false and
\* changes no scheduler state, and a wave after the first begins only when
\* the previous wave is no longer in progress, has released every event and
\* has no enemy left.
C4_NoWaveOverlap ==
    [][ /\ (out'.op \in {"startGame", "timer"} /\ waveInProgress)
            => (~out'.ret /\ UNCHANGED waveVars)
        /\ ("onWaveStart" \in out'.cb /\ currentWaveIndex' >= 1)
            => /\ ~waveInProgress
               /\ allEnemiesSpawned
               /\ spawnedCount = Len(WaveAt(currentWaveIndex).enemies)
               /\ AliveEnemies(enemies) = 0 ]_vars

\* the start button was pressed while a wave was in progress and the call of
\* startNextWave was refused
C4_StartRefusedInWave ==
    /\ out.op = "startGame"
    /\ ~out.ret
    /\ waveInProgress
    /\ spawnedCount < Len(WaveAt(currentWaveIndex).enemies)

\* the example wave: prepareTime 3000 and delays 0, 2000, 4000
IsExampleWave(wave) ==
    /\ wave.prepareTime = 3000
    /\ [i \in 1..Len(wave.enemies) |-> wave.enemies[i].delay] = <<0, 2000, 4000>>

\* C5 as stated: no spawn callback runs before waveStart + prepareTime +
\* delay, and in the wave with prepareTime 3000 and delays 0, 2000, 4000 the
\* callbacks run at exactly 3000, 5000 and 7000 ms after the wave's start.
C5_SpawnAtExactTimes ==
    [][ (out'.op = "gameLoop" /\ waveInProgress) =>
          LET wave == WaveAt(currentWaveIndex)
              elapsed == now - waveStartTime
          IN \A i \in (spawnedCount + 1)..spawnedCount' :
               /\ elapsed >= wave.prepareTime + wave.enemies[i].delay
               /\ IsExampleWave(wave)
                    => elapsed = wave.prepareTime + wave.enemies[i].delay ]_vars

\* C5 amended: no spawn callback runs before waveStart + prepareTime + delay,
\* and in the wave with prepareTime 3000 and delays 0, 2000, 4000 each
\* callback runs in the first frame at or after 3000, 5000 and 7000 ms: a
\* frame of that wave releases every event whose time has come.
C5_SpawnNeverEarly ==
    [][ (out'.op = "gameLoop" /\ waveInProgress) =>
          LET wave == WaveAt(currentWaveIndex)
              elapsed == now - waveStartTime
          IN /\ \A i \in (spawnedCount + 1)..spawnedCount' :
                   elapsed >= wave.prepareTime + wave.enemies[i].delay
             /\ IsExampleWave(wave) =>
                   \A i \in 1..Len(wave.enemies) :
                       elapsed >= wave.prepareTime + wave.enemies[i].delay
                           => i <= spawnedCount' ]_vars

\* a frame later than 7000 ms into the example wave has just released its
\* last event
C5_LastEventReleasedLate ==
    /\ out.op = "gameLoop"
    /\ "onSpawnEnemy" \in out.cb
    /\ currentWaveIndex = 0
    /\ IsExampleWave(WaveAt(0))
    /\ spawnedCount = 3
    /\ now - waveStartTime > 7000

\* C6: at the end of every frame during a wave (of a game whose core still
\* stands), every spawn event of the wave whose prepareTime + delay is at
\* most the elapsed wave time has been released, whatever the order of the
\* delays in the list.
C6_DueEventsReleased ==
    (out.op = "gameLoop" /\ waveInProgress /\ coreHealth > 0) =>
        LET wave == WaveAt(currentWaveIndex) IN
        \A i \in 1..Len(wave.enemies) :
            now - waveStartTime >= wave.prepareTime + wave.enemies[i].delay
                => i <= spawnedCount

\* C7: after a non-final wave is marked complete, the next wave starts one
\* wave at a time and not before the grace delay has elapsed since the
\* completion.
C7_NextWaveAfterGrace ==
    [][ ("onWaveStart" \in out'.cb /\ currentWaveIndex' >= 1) =>
          /\ currentWaveIndex' = currentWaveIndex + 1
          /\ now >= waveEndTime + GraceDelay ]_vars

\* the number of times onGuardTowerRemoved ran for the tower id
ReleasesOf(id) == IF id \in DOMAIN auraReleases THEN auraReleases[id] ELSE 0

\* C8: removal invoked on a tower that is no longer in the tower collection
\* changes neither the collection, nor tile occupancy, nor gold, nor any
\* aura counter, and the aura of every removed guard tower was returned
\* exactly once.
C8_RemovalOfRemovedTowerIsNoOp ==
    /\ [][ (out'.op = "removeTower" /\ indexOf(towers, currentTower) = 0)
             => UNCHANGED <<towers, hasTower, gold, guardAuraMap>> ]_vars
    /\ [](\A r \in removedTowers : r.type = "guard" => ReleasesOf(r.id) = 1)

\* removal has just been invoked from the panel on a guard tower that the
\* frame had already reaped, while another tower stands
C8_StaleRemovalOfReapedGuard ==
    /\ out.op = "removeTower"
    /\ ~out.ret
    /\ [id |-> out.id, type |-> "guard", how |-> "reaped"] \in removedTowers
    /\ towers # << >>

\* the cost of a unit type in the deployment bar
CostOf(type) == (CHOOSE u \in DeployableUnits : u.type = type).cost

\* C9: a drop either fails, returning false with gold, the tower collection,
\* tile occupancy and the aura counters unchanged, or it passed validation:
\* the tile was legal for the type and free and the gold covered the cost.
C9_FailedPlacementMutatesNothing ==
    [][ out'.op = "handleDragDeploy" =>
          \/ /\ ~out'.ret
             /\ UNCHANGED <<gold, towers, hasTower, guardAuraMap>>
          \/ /\ out'.ret
             /\ Len(towers') = Len(towers) + 1
             /\ LET t == towers'[Len(towers')] IN
                  /\ getTile(t.x, t.y) \in
                        (IF t.type = "guard" THEN {"platform", "ground"}
                                             ELSE {"platform"})
                  /\ ~hasTower[<<t.x, t.y>>]
                  /\ gold >= CostOf(t.type)
                  /\ gold' = gold - CostOf(t.type) ]_vars

\* a drop has just been refused because the gold no longer covered the cost
C9_DropRefusedForGold ==
    /\ out.op = "handleDragDeploy"
    /\ ~out.ret
    /\ out.why = "gold"

\* C10 as stated: for all baseDamage, defense and magicResist the physical
\* and magical damage is at least 1 and at most baseDamage.
C10_DamageWithinBase ==
    (out.op = "calculateDamage" /\ dmgArgs.damageType \in {"physical", "magical"})
        => /\ dmgResult >= 1
           /\ dmgResult * DmgDen <= dmgArgs.baseDamage

\* C10 amended: for baseDamage of at least 1, defense of at least 0 and any
\* magicResist the physical and magical damage is at least 1 and at most
\* baseDamage.
C10_DamageWithinBaseFromOne ==
    (/\ out.op = "calculateDamage"
     /\ dmgArgs.damageType \in {"physical", "magical"}
     /\ dmgArgs.baseDamage >= DmgDen
     /\ dmgArgs.defense >= 0)
        => /\ dmgResult >= 1
           /\ dmgResult * DmgDen <= dmgArgs.baseDamage

\* magical damage has just been resolved against a negative magicResist
C10_MagicalNegativeResist ==
    /\ out.op = "calculateDamage"
    /\ dmgArgs.damageType = "magical"
    /\ dmgArgs.magicResist < 0
    /\ dmgArgs.defense >= 0
    /\ dmgArgs.baseDamage >= 10 * DmgDen
    /\ dmgResult * DmgDen = dmgArgs.baseDamage

\* C11: a physical hit resolves to floor(max(floor(max(1, baseDamage*0.05)),
\* baseDamage - max(0, defense - physPen))) with physPen the attacker's
\* physical penetration (stated for defense of at least 0); baseDamage 10
\* against defense 20 without penetration resolves to 1.
C11_PhysicalFormula ==
    (/\ out.op = "calculateDamage"
     /\ dmgArgs.damageType = "physical"
     /\ dmgArgs.defense >= 0)
        => LET floorOfMinimum == Max(1, (dmgArgs.baseDamage * 5) \div (100 * DmgDen))
               reduced == Max(0, dmgArgs.defense - dmgArgs.physicalPen)
           IN /\ dmgResult = Max(floorOfMinimum * DmgDen,
                                 dmgArgs.baseDamage - reduced * DmgDen) \div DmgDen
              /\ (/\ dmgArgs.baseDamage = 10 * DmgDen
                  /\ dmgArgs.defense = 20
                  /\ dmgArgs.physicalPen = 0) => dmgResult = 1

C13_FullBurst ==
    [][burstTower.kind = "rain_mortar"
          => /\ Len(burstLog') <= burstCount
             /\ (/\ burstTower.state = "firing"
                 /\ burstTower'.state = "cooldown"
                 /\ tick'.hasEnemy)
                    => Len(burstLog') = burstCount]_vars

\* a burst of 4 that ended in cooldown and was not aimed at one enemy only
C13_BurstOnChangingTargets ==
    /\ burstTower.kind = "rain_mortar"
    /\ burstTower.state = "cooldown"
    /\ tick.hasEnemy
    /\ Len(burstLog) = burstCount
    /\ \E i, j \in 1..Len(burstLog) : burstLog[i] # burstLog[j]

\* C14: an anti-air, laser or rain-mortar tower that is preheating and finds
\* no enemy in range in a frame is idle after that frame and emits no fire
\* event in it; an idle tower emits no fire event.
C14_LostTargetAbortsCharge ==
    [][/\ (burstTower.state = "preheating" /\ ~tick'.hasEnemy)
            => /\ burstTower'.state = "idle"
               /\ ~tick'.shouldFire
               /\ burstLog' = burstLog
       /\ burstTower.state = "idle" => ~tick'.shouldFire]_vars

\* a tower back to idle from a preheating that never reached its fire event
C14_ChargeAborted ==
    /\ burstTower.state = "idle"
    /\ tick.deltaTime > 0
    /\ ~tick.hasEnemy
    /\ burstTower.frameTimer = 0
    /\ burstLog = << >>

\* C15 as stated: no anti-air, laser or rain-mortar tower goes from firing
\* directly to preheating.
C15_NeverFiringToCharging ==
    [][~(burstTower.state = "firing" /\ burstTower'.state = "preheating")]_vars

\* C15, amended: a rain-mortar tower leaves firing for cooldown only, and
\* leaves cooldown for preheating or idle once cooldownDuration has elapsed;
\* an anti-air or laser tower has no cooldown state: it leaves firing for
\* preheating or idle, after its fire event and once it has held the firing
\* frame for firingDuration (anti-air) or firingFrameDuration (laser).
C15_FixedHoldAfterFiring ==
    [][/\ burstTower.kind = "rain_mortar"
            => /\ burstTower.state = "firing"
                    => burstTower'.state \in {"firing", "cooldown"}
               /\ (burstTower.state = "cooldown" /\ burstTower'.state # "cooldown")
                    => /\ burstTower'.state \in {"preheating", "idle"}
                       /\ burstTower.frameTimer + tick'.deltaTime >= cooldownDuration
       /\ (/\ burstTower.kind \in {"antiaircraft", "laser"}
           /\ burstTower.state = "firing"
           /\ burstTower'.state # "firing")
            => /\ burstTower'.state \in {"preheating", "idle"}
               /\ burstLog # << >>
               /\ burstTower.frameTimer + tick'.deltaTime >=
                      (IF burstTower.kind = "antiaircraft" THEN firingDuration
                       ELSE firingFrameDuration)]_vars

\* a rain-mortar tower preheating again after a full burst and its cooldown
C15_RechargeAfterCooldown ==
    /\ burstTower.kind = "rain_mortar"
    /\ burstTower.state = "preheating"
    /\ Len(burstLog) = burstCount

\* C16: a counter-attacking enemy (AK47 or bubble-tea Capoo) goes from moving
\* to attacking only in a frame in which a living tower is in its range
\* pattern and its attackCooldown is not above 0; in every frame that it
\* begins or ends in attacking, its position and its pathIndex do not change.
C16_AttackOnlyInSightAndReady ==
    [][(enemyObjs # << >> /\ enemyObjs' # << >>)
          => LET e == enemyObjs[1]
                 a == enemyObjs'[1]
             IN /\ (e.state = "moving" /\ a.state = "attacking")
                      => /\ e.id \in frame'.inSight
                         /\ e.attackCooldown <= 0
                         /\ a.currentTargetId # 0
                /\ (e.state = "attacking" \/ a.state = "attacking")
                      => /\ a.position = e.position
                         /\ a.pathIndex = e.pathIndex]_vars

\* a Capoo firing at a tower from a place on its route past the red gate
C16_AttackingOnTheWay ==
    /\ enemyObjs # << >>
    /\ enemyObjs[1].state = "attacking"
    /\ enemyObjs[1].fired > 0
    /\ enemyObjs[1].position # tileToPixel(0, 0)
    /\ enemyObjs[1].id \in frame.inSight

\* the route spawnEnemy computes on the loaded layout
RouteFromRedGate ==
    findPathToNearestBlueGate(routeMap, getRedGates(routeMap)[1])

\* C18: in a frame in which a spawn event is due and the pathfinder returns
\* an empty route, no enemy is added to Game.enemies, coreHealth and gold do
\* not change and the frame runs to its end with the game still playing.
C18_NoRouteSpawnDiscarded ==
    [][(frame'.types # << >> /\ RouteFromRedGate = << >>)
          => /\ enemyObjs' = << >>
             /\ enemyObjs = << >>
             /\ coreHealth' = coreHealth
             /\ gold' = gold
             /\ gameState' = "playing"]_vars

\* a spawn event was released on a layout without route
C18_SpawnWithoutRoute ==
    /\ RouteFromRedGate = << >>
    /\ frame.types # << >>
    /\ entityIdCounter > 0
    /\ enemyObjs = << >>
    /\ coreHealth = MaxCoreHealth

\* C19: in every frame coreHealth goes down by the number of enemies whose
\* update reported the end of the path in that frame, and none of them is in
\* Game.enemies after the frame; an enemy in Game.enemies has not reached
\* the end of its path, so no enemy is counted twice.
C19_OnePointPerEnemyAtTheGate ==
    [][gameState = "playing"
          => /\ coreHealth' = coreHealth - Cardinality(frame'.reached)
             /\ \A k \in 1..Len(enemyObjs') :
                  /\ enemyObjs'[k].id \notin frame'.reached
                  /\ enemyObjs'[k].alive
                  /\ enemyObjs'[k].pathIndex < Len(enemyObjs'[k].path)
             /\ \A j, k \in 1..Len(enemyObjs') :
                  enemyObjs'[j].id = enemyObjs'[k].id => j = k]_vars

\* one enemy has just entered the blue gate while another is on its way
C19_EnemyAtTheGate ==
    /\ Cardinality(frame.reached) = 1
    /\ coreHealth = MaxCoreHealth - 1
    /\ Len(enemyObjs) = 1
    /\ enemyObjs[1].pathIndex > 0
\* C17: an attack instance that is processed while its target is absent from
\* the enemy list or dead is destroyed, takes no health from any enemy and
\* adds no gold
C17_LostTargetNoDamageNoReward ==
    \A n \in 1..Len(shotLog) :
        shotLog[n].lost =>
            /\ shotLog[n].destroyed
            /\ shotLog[n].damage = 0
            /\ shotLog[n].reward = 0

\* two instances at one enemy processed in one frame: the first killed it and
\* was rewarded, the second found it dead
C17_TargetKilledEarlierInTheFrame ==
    \E m, n \in 1..Len(shotLog) :
        /\ m < n
        /\ shotLog[m].targetId = shotLog[n].targetId
        /\ shotLog[m].reward = KillReward
        /\ shotLog[n].lost
        /\ shotLog[n].destroyed
\* C20: no step changes the defense stored in the stats of a tower that stays
\* in the list, whatever guard tower is placed or removed in the step; and
\* the defense a damage resolution passes to calculateDamage is the stored
\* defense plus the aura bonus when the count of the tower's tile is above 0,
\* the stored defense alone when the count is 0
C20_AuraBonusAtResolutionOnly ==
    [][/\ \A i \in 1..Len(towerObjs), j \in 1..Len(towerObjs') :
              towerObjs[i].id = towerObjs'[j].id
                  => towerObjs'[j].stats.defense = towerObjs[i].stats.defense
       /\ towerHit' # towerHit
              => towerHit'.used = IF towerHit'.counter > 0
                                  THEN towerHit'.stored + auraBonus
                                  ELSE towerHit'.stored]_vars

\* a gatling tower between two guard towers was hit with the bonus, then one
\* guard tower was removed and the tower was hit under a count of 1, its
\* stored defense still the default
C20_HitAfterOneGuardRemoved ==
    /\ towerHit.n = 2
    /\ towerHit.counter = 1
    /\ towerHit.used = GatlingStats.defense + auraBonus
    /\ entityIdCounter = 3
    /\ Len(towerObjs) = 2
    /\ \E i \in 1..Len(towerObjs) :
         /\ towerObjs[i].id = towerHit.id
         /\ towerObjs[i].type = "gatling"
         /\ towerObjs[i].stats.defense = GatlingStats.defense
\* C21: the health of every tower and enemy is at least 0, and an entity
\* whose death flag is set has its health at zero
C21_DeadOnlyAtZeroHealth ==
    /\ \A k \in 1..Len(shotEnemies) :
         /\ shotEnemies[k].health >= 0
         /\ ~shotEnemies[k].alive => shotEnemies[k].health = 0
    /\ \A i \in 1..Len(towerObjs) :
         /\ towerObjs[i].stats.health >= 0
         /\ ~towerObjs[i].alive => towerObjs[i].stats.health = 0
\* C22: the attack cooldown timer of every attacking entity is at least 0,
\* here that of every counter-attacking enemy
C22_CooldownNeverNegative ==
    \A k \in 1..Len(enemyObjs) : enemyObjs[k].attackCooldown >= 0

\* C24: whenever a frame of gameLoop ends with core health at or below 0,
\* the game is in the DEFEAT state when that frame returns
C24_DefeatInTheSameFrame ==
    [][(out'.op = "gameLoop" /\ coreHealth' <= 0) => gameState' = "defeat"]_vars

\* a frame in which the last points of core health were lost
C24_CoreLostInAFrame ==
    out.op = "gameLoop" /\ coreHealth = 0 /\ gameState = "defeat" /\ ~ticking

\* C25: the callbacks onSpawnEnemy, onWaveStart, onWaveEnd and
\* onAllWavesComplete are fired by a frame of gameLoop only, never by the
\* start button or by a timeout
C25_CallbacksOnlyInsideAFrame == out.cb # {} => out.op = "gameLoop"

\* C26: in every frame the time applied to the towers, to the enemies, to
\* the attack instances and to the scheduler's elapsed wave time is at most
\* 100 ms
C26_AdvanceAtMostTheClamp ==
    clock.ran =>
        /\ clock.towers <= ClampMs
        /\ clock.enemies <= ClampMs
        /\ clock.instances <= ClampMs
        /\ clock.scheduler <= ClampMs

\* C27: when reset returns, no tower, no enemy and no attack instance of any
\* kind is left in a collection of the game
C27_NothingLeftAfterReset ==
    out.op = "reset" =>
        /\ towers = << >>
        /\ towerObjs = << >>
        /\ enemies = NoEnemies
        /\ enemyObjs = << >>
        /\ shotEnemies = << >>
        /\ projectiles = << >>
        /\ gatlingBullets = << >>

\* the phase of the frame a call of gameLoop belongs to; the updates of
\* pop-ups and of explosion and death effects move no entity of the simulation
PhaseOf(call) ==
    CASE call = "waveSystem.update" -> "scheduler"
      [] call = "updateTowers" -> "towers"
      [] call = "updateEnemies" -> "enemies"
      [] call \in {"updateProjectiles", "updateFlameParticles",
                   "updateLaserBeams", "updateBubblePearls",
                   "updateAK47Bullets", "updateGatlingBullets",
                   "updateMortarProjectiles"} -> "instances"
      [] call = "cleanupDeadEntities" -> "reaping"
      [] call = "checkWaveComplete" -> "waveCheck"
      [] call = "endGame" -> "terminal"
      [] OTHER -> "effects"

\* the phases a sequence of calls runs through: one entry per run of calls of
\* the same phase
RECURSIVE Runs(_)
Runs(calls) ==
    IF calls = << >> THEN << >>
    ELSE LET rest == Runs(Tail(calls))
             p == PhaseOf(Head(calls))
         IN IF p = "effects" THEN rest
            ELSE IF rest # << >> /\ Head(rest) = p THEN rest
            ELSE <<p>> \o rest

PhaseOrder ==
    <<"scheduler", "towers", "enemies", "instances", "reaping", "waveCheck",
      "terminal">>

\* C23: a frame runs the scheduler, the towers, the enemies, the attack
\* instances, the reaping, the wave-completion check and the terminal check,
\* in this order and each once; so the shot a tower fired in the frame has
\* moved in it, no dead enemy is left in the list, the wave is not in
\* progress once its last enemy is gone, and the game is lost once the core is
C23_PhasesInFixedOrder ==
    phases.calls # << >> =>
        /\ Runs(phases.calls) = PhaseOrder
        /\ \A i \in 1..Len(projectiles) :
              projectiles[i].id = phases.fired.id
                  => projectiles[i].distance < phases.fired.distance
        /\ \A i \in 1..Len(gatlingBullets) :
              gatlingBullets[i].id = phases.fired.id
                  => gatlingBullets[i].distance < phases.fired.distance
        /\ \A k \in 1..Len(shotEnemies) : shotEnemies[k].alive
        /\ (waveInProgress /\ allEnemiesSpawned) => shotEnemies # << >>
        /\ coreHealth <= 0 => gameState = "defeat"

\* a frame that spawned a zombie, fired a shot and reaped an enemy
C23_FullFrame ==
    /\ phases.spawned # {}
    /\ phases.fired.id >= 0
    /\ phases.dead # {}

\* the tiles a walker may stand on, read from the layout
Open(layout, p) ==
    /\ p.y >= 0 /\ p.y < Len(layout)
    /\ p.x >= 0 /\ p.x < Len(layout[1])
    /\ layout[p.y + 1][p.x + 1] \in {"G", "R", "B"}

Adjacent(p, q) == Abs(p.x - q.x) + Abs(p.y - q.y) = 1

\* the number of steps of a shortest walk from the tiles of frontier, which
\* are d steps from the start, to the tile end; -1 if there is none
RECURSIVE StepsFrom(_, _, _, _, _)
StepsFrom(layout, frontier, seen, d, end) ==
    IF end \in frontier THEN d
    ELSE IF frontier = {} THEN -1
    ELSE LET next == {q \in GridTiles(Len(layout[1]), Len(layout)) \ seen :
                         /\ Open(layout, q)
                         /\ \E p \in frontier : Adjacent(p, q)}
         IN StepsFrom(layout, next, seen \cup next, d + 1, end)

Steps(layout, start, end) == StepsFrom(layout, {start}, {start}, 0, end)

\* the blue gates of the map, as a set
BlueGateSet == {getBlueGates(routeMap)[k] : k \in 1..Len(getBlueGates(routeMap))}

\* C28: with two blue gates, the route returned from the red gate is
\* non-empty exactly when some blue gate can be walked to, and it is no longer
\* than a shortest route to any blue gate that can be walked to
C28_NearestGateChosen ==
    out.op = "findPathToNearestBlueGate" =>
        /\ pathResult # << >> <=>
              \E gate \in BlueGateSet : Steps(routeMap, pathArgs.start, gate) >= 0
        /\ \A gate \in BlueGateSet :
              Steps(routeMap, pathArgs.start, gate) >= 0
                  => Len(pathResult) <= Steps(routeMap, pathArgs.start, gate) + 1

\* both gates can be walked to, the one listed first is nearer
C28_FartherGateListedLast ==
    /\ out.op = "findPathToNearestBlueGate"
    /\ Len(getBlueGates(routeMap)) > 1
    /\ Steps(routeMap, pathArgs.start, getBlueGates(routeMap)[1]) >= 0
    /\ Steps(routeMap, pathArgs.start, getBlueGates(routeMap)[2])
           > Steps(routeMap, pathArgs.start, getBlueGates(routeMap)[1])
    /\ Len(pathResult)
           = Steps(routeMap, pathArgs.start, getBlueGates(routeMap)[1]) + 1

\* the map has no platform
OpenGrid ==
    \A r \in 1..Len(routeMap) : \A c \in 1..Len(routeMap[r]) :
        routeMap[r][c] # "P"

\* C29: on a map without obstacles findPath returns |dx| + |dy| + 1 tiles,
\* the first is the start, the last is the end and each is 4-adjacent to the
\* one before it
C29_ManhattanRouteOnOpenGrid ==
    (out.op = "findPath" /\ OpenGrid) =>
        /\ Len(pathResult) = Abs(pathArgs.start.x - pathArgs.end.x)
                             + Abs(pathArgs.start.y - pathArgs.end.y) + 1
        /\ pathResult[1] = pathArgs.start
        /\ pathResult[Len(pathResult)] = pathArgs.end
        /\ \A i \in 1..(Len(pathResult) - 1) :
              Adjacent(pathResult[i], pathResult[i + 1])

\* a route across the widest open map, corner to corner
C29_CornerToCorner ==
    /\ out.op = "findPath"
    /\ OpenGrid
    /\ Len(routeMap) = MaxGridH
    /\ Len(routeMap[1]) = MaxGridW
    /\ pathArgs.start = Pos(0, 0)
    /\ pathArgs.end = Pos(MaxGridW - 1, MaxGridH - 1)
    /\ Len(pathResult) = MaxGridW + MaxGridH - 1

\* C30: when no walk over walkable tiles joins the start to the end,
\* findPath returns the empty route
C30_NoRouteGivesEmptyRoute ==
    (out.op = "findPath" /\ Steps(routeMap, pathArgs.start, pathArgs.end) < 0)
        => pathResult = << >>

\* the end is walled off and the search returned the empty route
C30_EndWalledOff ==
    /\ out.op = "findPath"
    /\ Steps(routeMap, pathArgs.start, pathArgs.end) < 0
    /\ pathResult = << >>
\* C31: the placement of a tower on an empty ground tile changes the
\* walkability of no tile, leaves every tile of the route computed before it
\* walkable, and leaves the result of a path search as it was.
PlacedOnGround ==
    /\ Len(towers') = Len(towers) + 1
    /\ LET t == towers'[Len(towers')] IN
          /\ MAP_CHAR_TO_TYPE(routeMap[t.y + 1][t.x + 1]) = "ground"
          /\ ~hasTower[<<t.x, t.y>>]

C31_PlacementLeavesRoutesAlone ==
    [][PlacedOnGround =>
         /\ \A p \in GridTiles(Len(routeMap[1]), Len(routeMap)) :
               isWalkable(routeMap', p.x, p.y) = isWalkable(routeMap, p.x, p.y)
         /\ \A i \in 1..Len(pathResult) :
               isWalkable(routeMap', pathResult[i].x, pathResult[i].y)
         /\ findPathToNearestBlueGate(routeMap', pathArgs.start)
               = findPathToNearestBlueGate(routeMap, pathArgs.start)]_vars

\* a path search run after a tower was placed on a ground tile of the route
\* found before
C31_TowerOnTheRoute ==
    /\ out.op = "findPathToNearestBlueGate"
    /\ Len(pathResult) > 2
    /\ \E i \in 1..Len(towers), j \in 1..Len(pathResult) :
          /\ towers[i].x = pathResult[j].x
          /\ towers[i].y = pathResult[j].y
          /\ hasTower[<<towers[i].x, towers[i].y>>]
          /\ MAP_CHAR_TO_TYPE(routeMap[towers[i].y + 1][towers[i].x + 1]) = "ground"
\* C32: in every area detonation each living enemy within the outer radius
\* takes the damage resolved from baseDamage times the percent of the
\* innermost layer that holds it, and each enemy beyond takes none; the
\* damage is told from the enemy's own distance and defense alone.
LayeredDamage(data, distance) ==
    IF damagePercentOf(data.layers, distance, 1) = 0 THEN 0
    ELSE calculateDamage(
             (data.baseDamage * damagePercentOf(data.layers, distance, 1) * DmgDen)
                 \div 100,
             "physical", ZombieStats.defense, ZombieStats.magicResist)

C32_LayeredFalloff ==
    \A n \in 1..Len(shotLog) : \A k \in 1..Len(shotLog[n].hits) :
        shotLog[n].hits[k].damage
            = LayeredDamage(shotLog[n].data, shotLog[n].hits[k].distance)
\* C33: every shot a charge-then-burst tower emits is aimed at an enemy that
\* is alive and inside the tower's range pattern in the tick of the shot.
C33_ShotsAimedInRange ==
    tick.shouldFire => tick.targetId \in tick.inRange
\* C34: from reset() until the next startGame() the scheduler is idle: no
\* wave is in progress and no wave-start or spawn callback runs, also when
\* the reset falls into the delay after a completed wave.
C34_IdleAfterReset ==
    gameState = "idle" =>
        /\ ~waveInProgress
        /\ currentWaveIndex = -1
        /\ out.cb \cap {"onWaveStart", "onSpawnEnemy"} = {}
\* C36: once the game is in VICTORY or DEFEAT, core health, gold, the
\* entity collections and the scheduler's wave progress stay as they are
\* until reset() is called.
C36_FrozenAfterGameEnd ==
    [][(gameState \in {"victory", "defeat"} /\ out'.op # "reset")
          => UNCHANGED <<coreHealth, gold, enemies, towers, currentWaveIndex,
                         waveInProgress, spawnedCount>>]_vars
\* C38: between two resets onAllWavesComplete is signalled at most once,
\* however often startNextWave is called after the last wave.  The wave index
\* passes the last wave when the signal is first given and only reset lowers
\* it, so a signal given with the index already past the last wave is a
\* second one.
C38_AllWavesCompleteOnce ==
    [][("onAllWavesComplete" \in out'.cb /\ out'.op # "reset")
          => currentWaveIndex < Len(waves)]_vars
\* C35: between ticks a tile's occupancy flag is set exactly when one tower
\* of the tower collection stands on the tile, across placement, removal,
\* reaping and reset; no two towers share a tile.
TowersOn(k) == {i \in 1..Len(towers) : <<towers[i].x, towers[i].y>> = k}

C35_OccupancyMatchesTowers ==
    \A k \in Tiles : hasTower[k] <=> Cardinality(TowersOn(k)) = 1
\* C39: each spawned enemy starts at the red gate that the gate index of its
\* spawn event designates, and its route starts from that gate.
C39_SpawnedAtDesignatedGate ==
    \A k \in 1..Len(enemyObjs) :
        (frame.types # << >> /\ enemyObjs[k].id = entityIdCounter - 1) =>
            LET gate == getRedGates(routeMap)[frame.gateIndex + 1]
            IN /\ enemyObjs[k].position = tileToPixel(gate.x, gate.y)
               /\ enemyObjs[k].path[1] = gate
\* C37: in every frame gold grows by the kill reward once for each enemy
\* that an attack brought to zero health, however many instances and
\* detonations reached it in the frame, and by nothing for an enemy that
\* entered the gate.
C37_OneRewardPerKill ==
    [][gold' = gold + KillReward * Cardinality(frame'.slain)]_vars

\* a frame with two detonations in which one enemy was killed and another
\* entered the gate
C37_KilledUnderTwoDetonations ==
    /\ frame # NoFrame
    /\ frame.blasts = 2
    /\ frame.slain # {}
    /\ frame.reached # {}
\* the shortest frame of the loop
MinDelta == CHOOSE d \in DeltaTimes : \A o \in DeltaTimes : d <= o

FramesFor(duration) == (duration + MinDelta - 1) \div MinDelta

\* the frames a burst lasts at most: every bullet waits for its interval and
\* the burst for its duration; the pearls start at the middle frame of the
\* animation and the burst ends with the animation
BurstTicks(type) ==
    IF type = "capoo_ak47"
    THEN Max(bulletCount * FramesFor(attackDuration \div bulletCount),
             FramesFor(attackDuration))
    ELSE Max(bubbleFrameCount * FramesFor(bubbleFrameDuration),
             (bubbleFrameCount \div 2) * FramesFor(bubbleFrameDuration)
                 + pearlCount * FramesFor(pearlFireInterval))

\* C40: a counter-attacking enemy that has entered Attacking is back in
\* Moving within the frames its burst takes at most, and in the frame it
\* returns its cooldown is the attack interval of its class, whether or not
\* the tower it aims at lives through the burst
C40_BurstEndsInMoving ==
    \A k \in 1..Len(enemyObjs) :
        LET enemy == enemyObjs[k]
        IN /\ enemy.state \in {"moving", "attacking"}
           /\ frame.ticks <= BurstTicks(enemy.type)
           /\ enemy.state = "attacking" => frame.ticks < BurstTicks(enemy.type)
           /\ (frame.ticks > 0 /\ enemy.state = "moving") =>
                  enemy.attackCooldown =
                      IF enemy.type = "capoo_ak47" THEN ak47AttackInterval
                      ELSE bubbleAttackInterval

\* a burst that ended in Moving although the tower aimed at was lost in it
C40_ReturnedAfterLosingTheTower ==
    /\ Len(enemyObjs) = 1
    /\ frame.ticks > 0
    /\ frame.lost
    /\ enemyObjs[1].state = "moving"

====
